---- MODULE Spec2Model ----
(***************************************************************************)
(* Markdown post-processing of the answer generator: the text stages of    *)
(* app/services/legacy/convert_markdown.py and of the script               *)
(* legacy_scripts/convert_md_to_pdfs-v3.6.py, and the two orchestrators    *)
(* that chain them.                                                        *)
(*                                                                         *)
(* A text is a sequence of characters.  An ASCII character is the string   *)
(* of length one that holds it; any other code point is written by its     *)
(* name, "U+2611".  Indices are 1-based, so Python's text[i] is t[i + 1],  *)
(* and the result None of an index search is 0.                            *)
(***************************************************************************)
EXTENDS Integers, Sequences, FiniteSets, TLC

VARIABLES
    impl,              \* "app": convert_markdown.py, "legacy": convert_md_to_pdfs-v3.6.py
    src,               \* the text handed to the operation
    attribution_text,  \* the attribution string handed to the operation
    md_text,           \* the text as transformed so far
    prev,              \* the text before the latest step
    removals,          \* the removal log of the latest image stripping
    pc,                \* which operation runs and how far it is
    stages,            \* the stages the orchestrator has applied, in order
    runs,              \* how often the injector has run on md_text
    scan_start,        \* the index the Delimiter Scanner is started at (1-based)
    scan_open,         \* the opening delimiter handed to the Delimiter Scanner
    scan_close,        \* the closing delimiter handed to the Delimiter Scanner
    scan_found,        \* what the Delimiter Scanner returned (0: None)
    op,                \* the function that runs loop pass by loop pass
    phase,             \* what the Image Stripper called the Delimiter Scanner for
    loop_i,            \* i of _strip_markdown_images (1-based)
    loop_j,            \* j of _strip_markdown_images (1-based)
    alt_end,           \* alt_close of _strip_markdown_images (1-based)
    scan_i,            \* i of _find_closing_delimiter (1-based)
    scan_depth,        \* depth of _find_closing_delimiter
    reads,             \* the indices at which the text has been subscripted
    job_pc,            \* where the request handler and the background task of a job are
    status_file,       \* status.json of the job
    pending,           \* the payload of a write_status that has opened the file
    history,           \* the statuses written to status.json, in order
    written,           \* the payloads handed to write_status
    raised,            \* the exception that left run_pipeline ("": none)
    cached_pdf,        \* whether the job's PDF is in the cache
    answer,            \* the last answer of an endpoint
    retry_pc,          \* where _generate_with_retry is
    attempt,           \* attempt of _generate_with_retry
    response_text,     \* response_text of _generate_with_retry
    last_error,        \* last_error of _generate_with_retry ("": None)
    outcomes,          \* what each model request gave, in order
    sleeps,            \* how often _generate_with_retry has slept
    result,            \* the text _generate_with_retry returned
    meta_pc,           \* where main of add_metadata is
    files_n,           \* len(files) of add_metadata
    file_i,            \* the position in files of the loop of main (1-based)
    STOP_REQUESTED,    \* the stop flag of add_metadata
    successes,         \* successes of main
    failures,          \* failures of main
    errs,              \* errs of main
    exit_code,         \* the exit code of add_metadata (-1: still running)
    started,           \* how many files process_file has been called for
    started_at_stop,   \* started, at the time the stop flag was set (-1: not set)
    handlers           \* whether signal.signal installed _request_stop

vars ==
    <<impl, src, attribution_text, md_text, prev, removals, pc, stages, runs,
      scan_start, scan_open, scan_close, scan_found,
      op, phase, loop_i, loop_j, alt_end, scan_i, scan_depth, reads,
      job_pc, status_file, pending, history, written, raised, cached_pdf, answer,
      retry_pc, attempt, response_text, last_error, outcomes, sleeps, result,
      meta_pc, files_n, file_i, STOP_REQUESTED, successes, failures, errs, exit_code,
      started, started_at_stop, handlers>>

\* the variables of the text functions and of the orchestrators
textVars ==
    <<impl, src, attribution_text, md_text, prev, removals, pc, stages, runs,
      scan_start, scan_open, scan_close, scan_found,
      op, phase, loop_i, loop_j, alt_end, scan_i, scan_depth, reads>>

\* the variables of a pipeline job
jobVars == <<job_pc, status_file, pending, history, written, raised, cached_pdf, answer>>

\* the variables of the programs around the text functions
\* the variables of a call of _generate_with_retry
retryVars == <<retry_pc, attempt, response_text, last_error, outcomes, sleeps, result>>

\* the variables of a run of add_metadata
metaVars ==
    <<meta_pc, files_n, file_i, STOP_REQUESTED, successes, failures, errs, exit_code,
      started, started_at_stop, handlers>>

serviceVars == <<jobVars, retryVars, metaVars>>

\* the variables of a call of the Delimiter Scanner on its own
scanVars == <<scan_start, scan_open, scan_close, scan_found>>

\* the variables of a function that is followed loop pass by loop pass
loopVars == <<op, phase, loop_i, loop_j, alt_end, scan_i, scan_depth, reads>>

Impls == {"app", "legacy"}

(***************************************************************************)
(* Characters and strings as Python sees them.                             *)
(***************************************************************************)

\* str.isspace(): the code points Python counts as whitespace.
WhitespaceChars ==
    {" ", "\t", "\n", "\r", "\f", "U+000B", "U+001C", "U+001D", "U+001E", "U+001F",
     "U+0085", "U+00A0", "U+1680", "U+2000", "U+2001", "U+2002", "U+2003", "U+2004",
     "U+2005", "U+2006", "U+2007", "U+2008", "U+2009", "U+200A", "U+2028", "U+2029",
     "U+202F", "U+205F", "U+3000"}

\* str.splitlines(): the code points that end a line ("\r\n" ends one line).
LineBoundaryChars ==
    {"\n", "\r", "\f", "U+000B", "U+001C", "U+001D", "U+001E", "U+0085", "U+2028",
     "U+2029"}

\* The code points of the inputs that lie above U+FFFF (ASTRAL_RE's range).
AstralChars == {"U+1F518", "U+1F600"}

isspace(c) == c \in WhitespaceChars

Max(a, b) == IF a >= b THEN a ELSE b

Min(a, b) == IF a <= b THEN a ELSE b

\* text[lo:hi] of Python for 0 <= lo, with 0-based bounds already shifted: the
\* characters at the 1-based positions lo .. hi, empty when there are none.
Slice(t, lo, hi) == IF lo > hi THEN <<>> ELSE SubSeq(t, Max(lo, 1), Min(hi, Len(t)))

\* text.startswith(p)
startswith(t, p) == Len(p) <= Len(t) /\ SubSeq(t, 1, Len(p)) = p

\* text.endswith(p)
endswith(t, p) == Len(p) <= Len(t) /\ SubSeq(t, Len(t) - Len(p) + 1, Len(t)) = p

\* whether needle occurs at the 1-based position k of hay
OccursAt(needle, hay, k) ==
    /\ k + Len(needle) - 1 <= Len(hay)
    /\ \A d \in 1..Len(needle) : hay[k + d - 1] = needle[d]

\* needle in hay
Contains(needle, hay) == \E k \in 1..(Len(hay) + 1) : OccursAt(needle, hay, k)

\* the number of leading whitespace characters of t
RECURSIVE LeadingSpaces(_, _)
LeadingSpaces(t, k) ==
    IF k < Len(t) /\ isspace(t[k + 1]) THEN LeadingSpaces(t, k + 1) ELSE k

\* the number of trailing whitespace characters of t
RECURSIVE TrailingSpaces(_, _)
TrailingSpaces(t, k) ==
    IF k < Len(t) /\ isspace(t[Len(t) - k]) THEN TrailingSpaces(t, k + 1) ELSE k

\* text.lstrip()
lstrip(t) == Slice(t, LeadingSpaces(t, 0) + 1, Len(t))

\* text.strip()
strip(t) == LET l == lstrip(t) IN Slice(l, 1, Len(l) - TrailingSpaces(l, 0))

\* The first position from i on whose character is in S, or Len(t) + 1.  The
\* scanning loops below step over the characters they only copy or skip with
\* this, one call for the run of them.
NextPos(t, i, S) ==
    IF \E k \in i..Len(t) : t[k] \in S
    THEN CHOOSE k \in i..Len(t) : t[k] \in S /\ \A m \in i..(k - 1) : t[m] \notin S
    ELSE Len(t) + 1

\* text.splitlines(keepends=False) from position i on: acc holds the lines read.
RECURSIVE SplitFrom(_, _, _)
SplitFrom(t, i, acc) ==
    LET k == NextPos(t, i, LineBoundaryChars)
        crlf == t[k] = "\r" /\ k < Len(t) /\ t[k + 1] = "\n"
    IN  IF k > Len(t) THEN (IF i > Len(t) THEN acc ELSE Append(acc, SubSeq(t, i, Len(t))))
        ELSE SplitFrom(t, IF crlf THEN k + 2 ELSE k + 1, Append(acc, SubSeq(t, i, k - 1)))

splitlines(t) == SplitFrom(t, 1, <<>>)

\* "\n".join(lines)
RECURSIVE JoinFrom(_, _)
JoinFrom(lines, k) ==
    IF k > Len(lines) THEN <<>>
    ELSE IF k = Len(lines) THEN lines[k]
         ELSE lines[k] \o <<"\n">> \o JoinFrom(lines, k + 1)

join(lines) == JoinFrom(lines, 1)

\* the concatenation of the texts of a sequence
RECURSIVE Concat(_)
Concat(parts) == IF parts = <<>> THEN <<>> ELSE Head(parts) \o Concat(Tail(parts))

\* "\n".join(lines) + ("\n" if md_text.endswith("\n") else "")
Reassemble(lines, original) ==
    join(lines) \o (IF endswith(original, <<"\n">>) THEN <<"\n">> ELSE <<>>)

(***************************************************************************)
(* Delimiter Scanner and Image Stripper.                                   *)
(***************************************************************************)

\* a Delimiter Scanner to which a backslash is a character like any other
RECURSIVE ScanDelimiter_no_escape(_, _, _, _, _)
ScanDelimiter_no_escape(text, start, depth, open_ch, close_ch) ==
    LET i == NextPos(text, start, {open_ch, close_ch})
    IN  IF i > Len(text) THEN 0
        ELSE IF text[i] = open_ch
             THEN ScanDelimiter_no_escape(text, i + 1, depth + 1, open_ch, close_ch)
        ELSE IF depth - 1 = 0 THEN i
        ELSE ScanDelimiter_no_escape(text, i + 1, depth - 1, open_ch, close_ch)

\* The loop of _find_closing_delimiter from position start with the depth so
\* far; the passes over other characters only advance i.
RECURSIVE ScanDelimiter(_, _, _, _, _)
ScanDelimiter(text, start, depth, open_ch, close_ch) ==
    LET i == NextPos(text, start, {"\\", open_ch, close_ch})
    IN  IF i > Len(text) THEN 0
        ELSE IF text[i] = "\\" THEN ScanDelimiter(text, i + 2, depth, open_ch, close_ch)
        ELSE IF text[i] = open_ch
             THEN ScanDelimiter(text, i + 1, depth + 1, open_ch, close_ch)
        ELSE IF depth - 1 = 0 THEN i
        ELSE ScanDelimiter(text, i + 1, depth - 1, open_ch, close_ch)

\* _find_closing_delimiter: the index of the closer matching the opener at
\* start_idx, or 0 (None).
find_closing_delimiter(text, start_idx, open_ch, close_ch) ==
    ScanDelimiter(text, start_idx, 0, open_ch, close_ch)

\* while j < n and md_text[j].isspace(): j += 1
RECURSIVE SkipSpaces(_, _)
SkipSpaces(t, j) == IF j <= Len(t) /\ isspace(t[j]) THEN SkipSpaces(t, j + 1) ELSE j

S_inline_image == <<"i", "n", "l", "i", "n", "e", "-", "i", "m", "a", "g", "e">>

S_ref_image == <<"r", "e", "f", "-", "i", "m", "a", "g", "e">>

S_markdown == <<"m", "a", "r", "k", "d", "o", "w", "n", ":">>

S_markdown_ref == <<"m", "a", "r", "k", "d", "o", "w", "n", "_", "r", "e", "f", ":">>

S_arrow == <<" ", "-", ">", " ">>

S_no_alt == <<"(", "n", "o", " ", "a", "l", "t", ")">>

S_empty == <<"(", "e", "m", "p", "t", "y", ")">>

S_implicit == <<"(", "i", "m", "p", "l", "i", "c", "i", "t", ")">>

\* x or default, for strings
OrElse(x, default) == IF x = <<>> THEN default ELSE x

\* The removal-log entry of an inline image: the app logs a fixed word, the
\* script logs "markdown:<alt> -> <target>".
InlineSummary(which, alt_text, target_text) ==
    IF which = "app" THEN S_inline_image
    ELSE S_markdown \o OrElse(strip(alt_text), S_no_alt) \o S_arrow
         \o OrElse(strip(target_text), S_empty)

\* The removal-log entry of a reference image: "markdown_ref:<alt>[<label>]".
RefSummary(which, alt_text, label_text) ==
    IF which = "app" THEN S_ref_image
    ELSE S_markdown_ref \o OrElse(strip(alt_text), S_no_alt) \o <<"[">>
         \o OrElse(strip(label_text), S_implicit) \o <<"]">>

\* The loop of an Image Stripper that differs from _strip_markdown_images in
\* two places: emit says whether the "!" of a candidate without a match is
\* emitted, and past is how far beyond the closing delimiter the loop resumes.
RECURSIVE StripVariant(_, _, _, _, _, _, _)
StripVariant(which, t, start, copied, log, emit, past) ==
    LET i == NextPos(t, start, {"!"})
        out == copied \o SubSeq(t, start, i - 1)
    IN
    IF i > Len(t) THEN [text |-> out, removals |-> log]
    ELSE
    LET ch == t[i]
        candidate == /\ ch = "!"
                     /\ (i = 1 \/ t[i - 1] /= "\\")
                     /\ i + 1 <= Len(t)
                     /\ t[i + 1] = "["
        alt_close == find_closing_delimiter(t, i + 1, "[", "]")
        j == SkipSpaces(t, alt_close + 1)
        target_close == find_closing_delimiter(t, j, "(", ")")
        label_close == find_closing_delimiter(t, j, "[", "]")
        literal == StripVariant(which, t, i + 1, Append(out, ch), log, emit, past)
        unmatched == StripVariant(which, t, i + 1,
                         IF emit THEN Append(out, ch) ELSE out, log, emit, past)
    IN  IF ~candidate THEN literal
        ELSE IF alt_close = 0 THEN unmatched
        ELSE IF j <= Len(t) /\ t[j] = "("
             THEN (IF target_close = 0 THEN unmatched
                   ELSE StripVariant(which, t, target_close + past, out,
                            Append(log, InlineSummary(which,
                                Slice(t, i + 2, alt_close - 1),
                                Slice(t, j + 1, target_close - 1))), emit, past))
        ELSE IF j <= Len(t) /\ t[j] = "["
             THEN (IF label_close = 0 THEN unmatched
                   ELSE StripVariant(which, t, label_close + past, out,
                            Append(log, RefSummary(which,
                                Slice(t, i + 2, alt_close - 1),
                                Slice(t, j + 1, label_close - 1))), emit, past))
        ELSE literal

\* an Image Stripper that resumes at the closing delimiter, not after it
StripFrom_at_closer(which, t, start, copied, log) ==
    StripVariant(which, t, start, copied, log, TRUE, 0)

\* an Image Stripper that drops the "!" of a candidate without a match
StripFrom_dropping(which, t, start, copied, log) ==
    StripVariant(which, t, start, copied, log, FALSE, 1)

\* The loop of _strip_markdown_images from position start: out is the text
\* emitted and log the removals recorded so far.  The passes over characters
\* other than "!" copy them to out.
RECURSIVE StripFrom(_, _, _, _, _)
StripFrom(which, t, start, copied, log) ==
    LET i == NextPos(t, start, {"!"})
        out == copied \o SubSeq(t, start, i - 1)
    IN
    IF i > Len(t) THEN [text |-> out, removals |-> log]
    ELSE
    LET ch == t[i]
        candidate == /\ ch = "!"
                     /\ (i = 1 \/ t[i - 1] /= "\\")
                     /\ i + 1 <= Len(t)
                     /\ t[i + 1] = "["
        alt_close == find_closing_delimiter(t, i + 1, "[", "]")
        j == SkipSpaces(t, alt_close + 1)
        target_close == find_closing_delimiter(t, j, "(", ")")
        label_close == find_closing_delimiter(t, j, "[", "]")
        literal == StripFrom(which, t, i + 1, Append(out, ch), log)
    IN  IF ~candidate THEN literal
        ELSE IF alt_close = 0 THEN literal
        ELSE IF j <= Len(t) /\ t[j] = "("
             THEN (IF target_close = 0 THEN literal
                   ELSE StripFrom(which, t, target_close + 1, out,
                            Append(log, InlineSummary(which,
                                Slice(t, i + 2, alt_close - 1),
                                Slice(t, j + 1, target_close - 1)))))
        ELSE IF j <= Len(t) /\ t[j] = "["
             THEN (IF label_close = 0 THEN literal
                   ELSE StripFrom(which, t, label_close + 1, out,
                            Append(log, RefSummary(which,
                                Slice(t, i + 2, alt_close - 1),
                                Slice(t, j + 1, label_close - 1)))))
        ELSE literal

\* _strip_markdown_images: [text |-> the cleaned text, removals |-> the log]
strip_markdown_images(which, md) == StripFrom(which, md, 1, <<>>, <<>>)

\* the test of a candidate without "i + 1 < n": md_text[i + 1] is subscripted
\* whatever i is
CandidateReads_unguarded(t, i) ==
    {i} \cup (IF t[i] = "!" /\ i /= 1 THEN {i - 1} ELSE {})
        \cup (IF t[i] = "!" /\ (i = 1 \/ t[i - 1] /= "\\") THEN {i + 1} ELSE {})

\* The indices at which the test of a candidate subscripts the text in the
\* pass of _strip_markdown_images at position i: md_text[i], md_text[i - 1]
\* unless i is the first position, md_text[i + 1] unless i is the last.
CandidateReads(t, i) ==
    {i} \cup (IF t[i] = "!" /\ i /= 1 THEN {i - 1} ELSE {})
        \cup (IF t[i] = "!" /\ (i = 1 \/ t[i - 1] /= "\\") /\ i + 1 <= Len(t)
              THEN {i + 1} ELSE {})

\* ch == "!" and (i == 0 or md_text[i - 1] != "\\") and i + 1 < n and
\* md_text[i + 1] == "["
IsCandidate(t, i) ==
    /\ t[i] = "!"
    /\ (i = 1 \/ t[i - 1] /= "\\")
    /\ i + 1 <= Len(t)
    /\ t[i + 1] = "["

\* The indices at which "while j < n and md_text[j].isspace()" and the tests
\* of md_text[j] after it subscript the text, j starting at position first.
SpaceReads(t, first) == first..Min(SkipSpaces(t, first), Len(t))

(***************************************************************************)
(* Symbol Sanitizer.                                                       *)
(***************************************************************************)

\* the table without its last item
SPECIAL_REPLACEMENTS_V36_short ==
    << <<"U+2610", <<"[", " ", "]">> >>,
       <<"U+2611", <<"[", "x", "]">> >>,
       <<"U+1F518", <<"(", "U+25CF", ")">> >>,
       <<"U+26AA", <<"(", " ", ")">> >> >>

\* SPECIAL_REPLACEMENTS_V36, in the order the dictionary lists its items.
SPECIAL_REPLACEMENTS_V36 ==
    << <<"U+2610", <<"[", " ", "]">> >>,
       <<"U+2611", <<"[", "x", "]">> >>,
       <<"U+1F518", <<"(", "U+25CF", ")">> >>,
       <<"U+26AA", <<"(", " ", ")">> >>,
       <<"U+2B1C", <<"[", " ", "]">> >> >>

\* text.replace(c, dst) for a source of one character, from position i on
RECURSIVE ReplaceFrom(_, _, _, _)
ReplaceFrom(t, i, c, dst) ==
    LET k == NextPos(t, i, {c})
    IN  IF k > Len(t) THEN SubSeq(t, i, Len(t))
        ELSE SubSeq(t, i, k - 1) \o dst \o ReplaceFrom(t, k + 1, c, dst)

ReplaceChar(t, c, dst) == ReplaceFrom(t, 1, c, dst)

\* for src, dst in SPECIAL_REPLACEMENTS_V36.items(): text = text.replace(src, dst)
RECURSIVE ApplyReplacements(_, _)
ApplyReplacements(t, k) ==
    IF k > Len(SPECIAL_REPLACEMENTS_V36) THEN t
    ELSE ApplyReplacements(
             ReplaceChar(t, SPECIAL_REPLACEMENTS_V36[k][1], SPECIAL_REPLACEMENTS_V36[k][2]),
             k + 1)

\* ASTRAL_RE.sub("", text)
RemoveAstral(t) == SelectSeq(t, LAMBDA c : c \notin AstralChars)

\* a sanitizer that removes the code points above U+FFFF first and applies the
\* table afterwards
sanitize_symbols_removal_first(t) == ApplyReplacements(RemoveAstral(t), 1)

\* _sanitize_symbols / sanitize_symbols_v36
sanitize_symbols(t) == RemoveAstral(ApplyReplacements(t, 1))

(***************************************************************************)
(* Blockquote Attribution Injector.                                        *)
(***************************************************************************)

\* The number of lines of a block the duplicate check reads: block[-10:].
TailWindow == 10

S_quote == <<">">>

S_begin_flushright ==
    <<"\\", "b", "e", "g", "i", "n", "{", "f", "l", "u", "s", "h", "r", "i", "g", "h", "t",
      "}">>

S_QuoteAttribution ==
    <<"\\", "Q", "u", "o", "t", "e", "A", "t", "t", "r", "i", "b", "u", "t", "i", "o", "n">>

\* DEFAULT_BLOCKQUOTE_ATTRIBUTION of the script when the environment sets none.
DEFAULT_BLOCKQUOTE_ATTRIBUTION ==
    <<"U+5927", "U+5B66", " ", "U+5E74", "U+5EA6", " ", "U+8A66", "U+9A13", "U+79D1", "U+76EE",
     "U+4E0D", "U+660E">>

\* quoted_snippet(attr): the five lines appended to a block.
quoted_snippet(attr) ==
    << <<">">>,
       <<">", " ", "\\", "p", "a", "r", "\\", "v", "s", "p", "a", "c", "e", "{", "0", ".",
         "8", "\\", "b", "a", "s", "e", "l", "i", "n", "e", "s", "k", "i", "p", "}">>,
       <<">", " ", "\\", "b", "e", "g", "i", "n", "{", "f", "l", "u", "s", "h", "r", "i",
         "g", "h", "t", "}", "\\", "f", "o", "o", "t", "n", "o", "t", "e", "s", "i", "z",
         "e">>,
       <<">", " ", "-", "-", "-", " ">> \o attr,
       <<">", " ", "\\", "e", "n", "d", "{", "f", "l", "u", "s", "h", "r", "i", "g", "h",
         "t", "}">> >>

\* line.lstrip().startswith(">")
IsQuoteLine(line) == startswith(lstrip(line), S_quote)

\* the index after the last line of the run of quote lines that holds line i
RECURSIVE BlockEnd(_, _)
BlockEnd(lines, i) ==
    IF i <= Len(lines) /\ IsQuoteLine(lines[i]) THEN BlockEnd(lines, i + 1) ELSE i

\* block[-10:]
BlockTail(block) == Slice(block, Len(block) - TailWindow + 1, Len(block))

\* The markers besides the two fixed ones: the app looks for the attribution,
\* the script for the attribution and its default attribution.
existing_markers(which, attr) ==
    IF which = "app" THEN {attr} ELSE {attr, DEFAULT_BLOCKQUOTE_ATTRIBUTION}

\* has_attr of a block: one of the markers occurs in its last lines.
has_attr(which, block, attr) ==
    LET joined_tail == join(BlockTail(block))
    IN  \/ Contains(S_begin_flushright, joined_tail)
        \/ Contains(S_QuoteAttribution, joined_tail)
        \/ \E marker \in existing_markers(which, attr) :
               marker /= <<>> /\ Contains(marker, joined_tail)

\* The loop of _inject_attribution_to_blockquotes from line i.
RECURSIVE InjectFrom(_, _, _, _, _)
InjectFrom(which, lines, i, out, attr) ==
    IF i > Len(lines) THEN out
    ELSE IF IsQuoteLine(lines[i])
         THEN LET e == BlockEnd(lines, i)
                  block == SubSeq(lines, i, e - 1)
              IN  InjectFrom(which, lines, e,
                      out \o block
                          \o (IF has_attr(which, block, attr) THEN <<>>
                              ELSE quoted_snippet(attr)),
                      attr)
         ELSE InjectFrom(which, lines, i + 1, Append(out, lines[i]), attr)

\* _inject_attribution_to_blockquotes(md_text, attribution_text)
inject_attribution_to_blockquotes(which, md, attr) ==
    Reassemble(InjectFrom(which, splitlines(md), 1, <<>>, attr), md)

(***************************************************************************)
(* Horizontal-Rule Normalizer.                                             *)
(***************************************************************************)

S_rule == <<"-", "-", "-">>

S_dots == <<".", ".", ".">>

S_stars == <<"*", "*", "*">>

\* for idx in range(1, len(lines)): the first closing line from idx on, plus one
RECURSIVE FrontMatterScan(_, _)
FrontMatterScan(lines, idx) ==
    IF idx > Len(lines) THEN 0
    ELSE IF strip(lines[idx]) \in {S_rule, S_dots} THEN idx
         ELSE FrontMatterScan(lines, idx + 1)

\* find_front_matter_end with "return idx" for "return idx + 1": the closing
\* line is left to the body.
find_front_matter_end_excl(lines) ==
    IF lines = <<>> THEN 0
    ELSE IF strip(lines[1]) /= S_rule THEN 0
         ELSE Max(FrontMatterScan(lines, 2) - 1, 0)

\* _find_front_matter_end: the number of lines of the front matter, the closing
\* line included (Python's idx + 1 as a 0-based index), or 0 (None).
find_front_matter_end(lines) ==
    IF lines = <<>> THEN 0
    ELSE IF strip(lines[1]) /= S_rule THEN 0
         ELSE FrontMatterScan(lines, 2)

\* IsBareRule without "and len(stripped) >= 3": any line of "-" only is a rule
IsBareRule_any_length(line) ==
    LET stripped == strip(line)
    IN  /\ stripped /= <<>>
        /\ \A k \in 1..Len(stripped) : stripped[k] = "-"

\* stripped and set(stripped) <= {"-"} and len(stripped) >= 3
IsBareRule(line) ==
    LET stripped == strip(line)
    IN  /\ stripped /= <<>>
        /\ \A k \in 1..Len(stripped) : stripped[k] = "-"
        /\ Len(stripped) >= 3

\* one line of the body: leading whitespace plus "***" for a bare rule
NormalizeLine(line) ==
    IF IsBareRule(line)
    THEN Slice(line, 1, Len(line) - Len(lstrip(line))) \o S_stars
    ELSE line

\* _normalize_horizontal_rules_for_pdf(md_text)
normalize_horizontal_rules_for_pdf(md) ==
    LET lines == splitlines(md)
        front_matter_end == find_front_matter_end(lines)
        merged == [k \in 1..Len(lines) |->
                      IF k <= front_matter_end THEN lines[k] ELSE NormalizeLine(lines[k])]
    IN  Reassemble(merged, md)

(***************************************************************************)
(* The disclaimer banner and the two orchestrators.                        *)
(***************************************************************************)

\* the disclaimer text of both orchestrators
citation ==
    <<"U+203B", "U+753B", "U+50CF", "U+306E", "U+8AAD", "U+89E3", "U+306B", "U+3064", "U+3044",
     "U+3066", "U+306F", "U+3001", "U+30E2", "U+30C7", "U+30EB", "U+306E", "U+7279", "U+6027",
     "U+4E0A", "U+3001", "U+5B9F", "U+969B", "U+306E", "U+6240", "U+898B", "U+3068", "U+7570",
     "U+306A", "U+308B", "U+89E3", "U+91C8", "U+3084", "U+4E0D", "U+6B63", "U+78BA", "U+306A",
     "U+8AAC", "U+660E", "U+304C", "U+51FA", "U+529B", "U+3055", "U+308C", "U+308B", "U+30EA",
     "U+30B9", "U+30AF", "U+304C", "U+3054", "U+3056", "U+3044", "U+307E", "U+3059", "U+3002",
     "U+81E8", "U+5E8A", "U+5224", "U+65AD", "U+30FB", "U+6559", "U+80B2", "U+8A55", "U+4FA1",
     "U+30FB", "U+516C", "U+5F0F", "U+6587", "U+66F8", "U+7B49", "U+3078", "U+306E", "U+8EE2",
     "U+7528", "U+306B", "U+969B", "U+3057", "U+3066", "U+306F", "U+3001", "U+5FC5", "U+305A",
     "U+539F", "U+8CC7", "U+6599", "U+304A", "U+3088", "U+3073", "U+4E00", "U+6B21", "U+60C5",
     "U+5831", "U+3092", "U+518D", "U+78BA", "U+8A8D", "U+3057", "U+3001", "U+5C02", "U+9580",
     "U+5BB6", "U+306E", "U+30EC", "U+30D3", "U+30E5", "U+30FC", "U+3092", "U+7D4C", "U+305F",
     "U+4E0A", "U+3067", "U+614E", "U+91CD", "U+306B", "U+3054", "U+5229", "U+7528", "U+304F",
     "U+3060", "U+3055", "U+3044", "U+3002">>

\* a banner step that prepends the banner whatever the text holds
PrependBanner_always(md) == <<"*", "*">> \o citation \o <<"*", "*", "\n", "\n">> \o md

\* f"**{citation}**\n\n{md_text}" when the citation does not occur in md_text
PrependBanner(md) ==
    IF Contains(citation, md) THEN md
    ELSE <<"*", "*">> \o citation \o <<"*", "*", "\n", "\n">> \o md

\* _inject_attribution of the app: the banner, then the blockquote injector.
inject_attribution(md, attr) ==
    inject_attribution_to_blockquotes("app", PrependBanner(md), attr)

\* The stages in the order the orchestrator's statements apply them:
\* convert_markdown_to_pdf calls _inject_attribution (banner, then injector),
\* the normalizer, the stripper and the sanitizer; the script's
\* add_attribution_to_blockquotes_file calls the injector, the normalizer,
\* prepends the banner, strips and sanitizes.
StageOrder(which) ==
    IF which = "app" THEN <<"banner", "inject", "normalize", "strip", "sanitize">>
    ELSE <<"inject", "normalize", "banner", "strip", "sanitize">>

(***************************************************************************)
(* Inputs.                                                                  *)
(***************************************************************************)

\* the most lines of an input document
MaxDocLines == 3

\* the most lines of a document handed to the normalizer alone
MaxRuleLines == 4

\* the most pieces of an input of the Image Stripper
MaxAtoms == 4

\* the most runs of the injector on one text
MaxRuns == 3

\* the texts of at most n lines drawn from lineSet, joined by "\n"
Docs(lineSet, n) == {join(ls) : ls \in UNION {[1..k -> lineSet] : k \in 0..n}}

\* attribution strings: one that occurs in a quoted line of the inputs, one of
\* several words, and one of two lines (a form field may hold a line break)
Attributions == {<<"q">>, <<"x", " ", "y">>, <<"a", "\n", "b">>}

\* lines of the documents handed to the orchestrators
OrchLines ==
    {<<"-", "-", "-">>,
     <<"k", ":", " ", "v">>,
     <<">", "!", "[", "a">>,
     <<"]", "(", "b", ")">>,
     <<"-", "!", "[", "a", "]", "(", "b", ")", "-", "-">>,
     <<"!", "!", "[", "a", "]", "(", "b", ")", "[", "c", "]", "(", "d", ")">>,
     <<"U+2610", "U+2611", "U+1F518", "U+26AA", "U+2B1C", "U+1F600", "a">>}

OrchAttributions == {<<"q">>, <<"x", " ", "y">>}

\* how often an orchestrator is run on a document and then on its own output
MaxPasses == 2

\* lines that hold the disclaimer text: on its own, in a quote line, and as the
\* alt text of an image
CitedLines ==
    {citation,
     <<">", " ">> \o citation,
     <<"!", "[">> \o citation \o <<"]", "(", "u", ")">>}

\* documents that hold the disclaimer text, alone or after another line
CitedDocs == CitedLines \cup {join(<<a, c>>) : a \in OrchLines, c \in CitedLines}

\* lines of the documents handed to the injector
InjectLines ==
    {<<">", "q">>,
     <<"q">>,
     <<" ", ">", " ", "x">>,
     <<">", " ">> \o S_begin_flushright,
     <<">", " ">> \o DEFAULT_BLOCKQUOTE_ATTRIBUTION,
     <<>>}

\* how many lines more than the injector's window of last lines a block of the
\* inputs has
MaxOverhang == 1

\* quote lines that hold a marker of the injector
MarkedLines ==
    {<<">", " ">> \o S_begin_flushright,
     <<">", " ">> \o S_QuoteAttribution,
     <<">", " ">> \o DEFAULT_BLOCKQUOTE_ATTRIBUTION,
     <<">", " ", "x", " ", "y">>}

\* blocks of a marked line followed by quote lines, so many that the marked
\* line is the first of the block's last TailWindow lines or stands before them
LongBlocks ==
    {join(<<m>> \o [k \in 1..n |-> <<">", "q">>]) :
        m \in MarkedLines, n \in (TailWindow - 1)..(TailWindow + MaxOverhang - 1)}

\* lines of the documents handed to the normalizer
RuleLines ==
    {<<"-", "-", "-">>,
     <<" ", "-", "-", "-", " ">>,
     <<".", ".", ".">>,
     <<"-", "-", "-", "-">>,
     <<" ", " ", "-", "-", "-", "-", "-">>,
     <<"k", ":", " ", "v">>,
     <<"-", "-">>}

ImageAlt == <<"a", "l", "t">>

ImageTarget == <<"u">>

\* pieces of the texts handed to the Image Stripper
StripAtoms ==
    {<<"!">>,
     <<"[">> \o ImageAlt \o <<"]", "(">> \o ImageTarget \o <<")">>,
     <<"[">> \o ImageAlt \o <<"]">>,
     <<"(">>,
     <<"[">>,
     <<"\\">>,
     <<" ">>}

StripTexts == {Concat(ps) : ps \in UNION {[1..k -> StripAtoms] : k \in 0..MaxAtoms}}

\* the longest text handed to the Delimiter Scanner on its own
MaxScanLen == 5

\* the characters of the texts handed to the Delimiter Scanner
ScanChars == {"[", "]", "(", ")", "\\", "a"}

\* the text "[a\]b]c", whose first "]" is escaped
ScanExample == <<"[", "a", "\\", "]", "b", "]", "c">>

ScanTexts == UNION {[1..k -> ScanChars] : k \in 0..MaxScanLen} \cup {ScanExample}

\* the (open, close) pairs the Image Stripper hands to the Delimiter Scanner
DelimiterPairs == {<<"[", "]">>, <<"(", ")">>}

\* the longest text handed to the Symbol Sanitizer on its own
MaxSymbols == 3

\* the characters of the texts handed to the Symbol Sanitizer: the five keys of
\* the table, an emoji, a letter and the black circle
SymbolChars ==
    {"U+2610", "U+2611", "U+1F518", "U+26AA", "U+2B1C", "U+1F600", "a", "U+25CF"}

SymbolTexts == UNION {[1..k -> SymbolChars] : k \in 0..MaxSymbols}

\* the most pieces of a text whose processing is followed loop pass by loop pass
MaxLoopAtoms == 3

\* pieces of those texts: brackets balanced and unbalanced, a lone "!", a
\* backslash, a space
LoopAtoms ==
    {<<"!", "[", "]">>,
     <<"(", ")">>,
     <<"[", "]">>,
     <<"!", "[">>,
     <<"!">>,
     <<"(">>,
     <<"]">>,
     <<"\\">>,
     <<" ">>}

LoopTexts == {Concat(ps) : ps \in UNION {[1..k -> LoopAtoms] : k \in 0..MaxLoopAtoms}}

\* the most lines of a text handed to a function that is called in one step
MaxCallLines == 2

\* lines of those texts: quote markers, a rule, symbols, a backslash, a
\* carriage return, nothing
CallLines ==
    {<<">">>,
     <<" ", ">", ">">>,
     <<"-", "-", "-">>,
     <<"U+1F518", "U+1F600">>,
     <<"\\">>,
     <<"\r">>,
     <<>>}

CallTexts == Docs(CallLines, MaxCallLines) \cup {t \o <<"\n">> : t \in Docs(CallLines, MaxCallLines)}

(***************************************************************************)
(* The orchestrators, one stage a step.                                    *)
(***************************************************************************)

\* no call of the Delimiter Scanner on its own is under way
NoScan == scan_start = 0 /\ scan_open = "" /\ scan_close = "" /\ scan_found = 0

\* no function is followed loop pass by loop pass
NoLoop ==
    /\ op = ""
    /\ phase = ""
    /\ loop_i = 0
    /\ loop_j = 0
    /\ alt_end = 0
    /\ scan_i = 0
    /\ scan_depth = 0
    /\ reads = {}

\* no job has been asked for
NoJob ==
    /\ job_pc = "no_request"
    /\ status_file = [state |-> "absent", status |-> "", message |-> ""]
    /\ pending = [status |-> "", message |-> ""]
    /\ history = <<>>
    /\ written = {}
    /\ raised = ""
    /\ cached_pdf = FALSE
    /\ answer = [kind |-> "", at |-> "", code |-> 0,
                 got |-> [outcome |-> "", status |-> "", message |-> ""]]

\* _generate_with_retry has not been called
NoRetry ==
    /\ retry_pc = ""
    /\ attempt = 0
    /\ response_text = <<>>
    /\ last_error = ""
    /\ outcomes = <<>>
    /\ sleeps = 0
    /\ result = <<>>

\* the text functions and the orchestrators are not running
IdleText ==
    /\ impl = "app"
    /\ src = <<>>
    /\ attribution_text = <<>>
    /\ md_text = <<>>
    /\ prev = <<>>
    /\ removals = <<>>
    /\ stages = <<>>
    /\ runs = 0
    /\ pc = "idle"
    /\ NoScan
    /\ NoLoop

\* add_metadata is not running
NoMeta ==
    /\ meta_pc = ""
    /\ files_n = 0
    /\ file_i = 0
    /\ STOP_REQUESTED = FALSE
    /\ successes = <<>>
    /\ failures = <<>>
    /\ errs = 0
    /\ exit_code = -1
    /\ started = 0
    /\ started_at_stop = -1
    /\ handlers = ""

\* the programs around the text functions are not running
NoService ==
    /\ NoJob
    /\ NoRetry
    /\ NoMeta

Init ==
    /\ impl \in Impls
    /\ src \in Docs(OrchLines, MaxDocLines) \cup CitedDocs
    /\ attribution_text \in OrchAttributions
    /\ md_text = src
    /\ prev = src
    /\ removals = <<>>
    /\ pc = "orchestrate"
    /\ stages = <<>>
    /\ runs = 0
    /\ NoScan
    /\ NoLoop
    /\ NoService

\* the stage the orchestrator applies next
NextStage ==
    IF pc = "orchestrate" /\ Len(stages) < Len(StageOrder(impl))
    THEN StageOrder(impl)[Len(stages) + 1]
    ELSE "none"

\* what a stage leaves behind: its name is recorded and the last one ends the run
Advance(stage) ==
    /\ stages' = Append(stages, stage)
    /\ pc' = IF Len(stages) + 1 = Len(StageOrder(impl)) THEN "done" ELSE pc
    /\ prev' = md_text
    /\ UNCHANGED <<impl, src, attribution_text>>
    /\ UNCHANGED scanVars
    /\ UNCHANGED loopVars
    /\ UNCHANGED serviceVars

InjectBlockquotes ==
    /\ NextStage = "inject"
    /\ md_text' = inject_attribution_to_blockquotes(impl, md_text, attribution_text)
    /\ runs' = runs + 1
    /\ Advance("inject")
    /\ UNCHANGED removals

NormalizeRules ==
    /\ NextStage = "normalize"
    /\ md_text' = normalize_horizontal_rules_for_pdf(md_text)
    /\ Advance("normalize")
    /\ UNCHANGED <<removals, runs>>

Banner ==
    /\ NextStage = "banner"
    /\ md_text' = PrependBanner(md_text)
    /\ Advance("banner")
    /\ UNCHANGED <<removals, runs>>

StripImages ==
    /\ NextStage = "strip"
    /\ LET r == strip_markdown_images(impl, md_text)
       IN  md_text' = r.text /\ removals' = r.removals
    /\ Advance("strip")
    /\ UNCHANGED runs

SanitizeSymbols ==
    /\ NextStage = "sanitize"
    /\ md_text' = sanitize_symbols(md_text)
    /\ Advance("sanitize")
    /\ UNCHANGED <<removals, runs>>

\* the orchestrator is run again, on the text it ended with
Rerun ==
    /\ pc = "done"
    /\ runs < MaxPasses
    /\ src' = md_text
    /\ prev' = md_text
    /\ removals' = <<>>
    /\ stages' = <<>>
    /\ pc' = "orchestrate"
    /\ UNCHANGED <<impl, attribution_text, md_text, runs>>
    /\ UNCHANGED scanVars
    /\ UNCHANGED loopVars
    /\ UNCHANGED serviceVars

Next ==
    \/ InjectBlockquotes
    \/ NormalizeRules
    \/ Banner
    \/ StripImages
    \/ SanitizeSymbols
    \/ Rerun

Spec == Init /\ [][Next]_vars

(***************************************************************************)
(* The Image Stripper called on a text, and again on its own result.       *)
(***************************************************************************)

InitStrip ==
    /\ impl \in Impls
    /\ src \in StripTexts
    /\ attribution_text = <<>>
    /\ md_text = src
    /\ prev = src
    /\ removals = <<>>
    /\ pc = "strip_input"
    /\ stages = <<>>
    /\ runs = 0
    /\ NoScan
    /\ NoLoop
    /\ NoService

StripOnce ==
    /\ pc = "strip_input"
    /\ LET r == strip_markdown_images(impl, md_text)
       IN  md_text' = r.text /\ removals' = r.removals
    /\ prev' = md_text
    /\ pc' = "stripped"
    /\ UNCHANGED <<impl, src, attribution_text, stages, runs>>
    /\ UNCHANGED scanVars
    /\ UNCHANGED loopVars
    /\ UNCHANGED serviceVars

StripAgain ==
    /\ pc = "stripped"
    /\ LET r == strip_markdown_images(impl, md_text)
       IN  md_text' = r.text /\ removals' = r.removals
    /\ prev' = md_text
    /\ pc' = "restripped"
    /\ UNCHANGED <<impl, src, attribution_text, stages, runs>>
    /\ UNCHANGED scanVars
    /\ UNCHANGED loopVars
    /\ UNCHANGED serviceVars

NextStrip == StripOnce \/ StripAgain

SpecStrip == InitStrip /\ [][NextStrip]_vars

(***************************************************************************)
(* The injector called on a text, and again on its own result.             *)
(***************************************************************************)

InitInject ==
    /\ impl \in Impls
    /\ src \in Docs(InjectLines, MaxDocLines) \cup LongBlocks
    /\ attribution_text \in Attributions
    /\ md_text = src
    /\ prev = src
    /\ removals = <<>>
    /\ pc = "inject_input"
    /\ stages = <<>>
    /\ runs = 0
    /\ NoScan
    /\ NoLoop
    /\ NoService

InjectRun ==
    /\ pc \in {"inject_input", "injected"}
    /\ runs < MaxRuns
    /\ md_text' = inject_attribution_to_blockquotes(impl, md_text, attribution_text)
    /\ prev' = md_text
    /\ runs' = runs + 1
    /\ pc' = "injected"
    /\ UNCHANGED <<impl, src, attribution_text, removals, stages>>
    /\ UNCHANGED scanVars
    /\ UNCHANGED loopVars
    /\ UNCHANGED serviceVars

NextInject == InjectRun

SpecInject == InitInject /\ [][NextInject]_vars

(***************************************************************************)
(* The Horizontal-Rule Normalizer called on a text.                        *)
(***************************************************************************)

InitRules ==
    /\ impl \in Impls
    /\ src \in Docs(RuleLines, MaxRuleLines)
    /\ attribution_text = <<>>
    /\ md_text = src
    /\ prev = src
    /\ removals = <<>>
    /\ pc = "rules_input"
    /\ stages = <<>>
    /\ runs = 0
    /\ NoScan
    /\ NoLoop
    /\ NoService

NormalizeDirect ==
    /\ pc = "rules_input"
    /\ md_text' = normalize_horizontal_rules_for_pdf(md_text)
    /\ prev' = md_text
    /\ pc' = "rules_done"
    /\ UNCHANGED <<impl, src, attribution_text, removals, stages, runs>>
    /\ UNCHANGED scanVars
    /\ UNCHANGED loopVars
    /\ UNCHANGED serviceVars

NextRules == NormalizeDirect

SpecRules == InitRules /\ [][NextRules]_vars

(***************************************************************************)
(* The Delimiter Scanner called on a text at an opening delimiter.         *)
(***************************************************************************)

InitScan ==
    /\ impl \in Impls
    /\ src \in ScanTexts
    /\ \E pair \in DelimiterPairs : scan_open = pair[1] /\ scan_close = pair[2]
    /\ scan_start \in {s \in 1..Len(src) : src[s] = scan_open}
    /\ scan_found = 0
    /\ NoLoop
    /\ NoService
    /\ attribution_text = <<>>
    /\ md_text = src
    /\ prev = src
    /\ removals = <<>>
    /\ pc = "scan_input"
    /\ stages = <<>>
    /\ runs = 0

FindClosing ==
    /\ pc = "scan_input"
    /\ scan_found' = find_closing_delimiter(src, scan_start, scan_open, scan_close)
    /\ pc' = "scanned"
    /\ UNCHANGED <<impl, src, attribution_text, md_text, prev, removals, stages, runs>>
    /\ UNCHANGED <<scan_start, scan_open, scan_close>>
    /\ UNCHANGED loopVars
    /\ UNCHANGED serviceVars

NextScan == FindClosing

SpecScan == InitScan /\ [][NextScan]_vars

(***************************************************************************)
(* The Symbol Sanitizer called on a text.                                  *)
(***************************************************************************)

InitSanitize ==
    /\ impl \in Impls
    /\ src \in SymbolTexts
    /\ attribution_text = <<>>
    /\ md_text = src
    /\ prev = src
    /\ removals = <<>>
    /\ pc = "sanitize_input"
    /\ stages = <<>>
    /\ runs = 0
    /\ NoScan
    /\ NoLoop
    /\ NoService

SanitizeDirect ==
    /\ pc = "sanitize_input"
    /\ md_text' = sanitize_symbols(md_text)
    /\ prev' = md_text
    /\ pc' = "sanitized"
    /\ UNCHANGED <<impl, src, attribution_text, removals, stages, runs>>
    /\ UNCHANGED scanVars
    /\ UNCHANGED loopVars
    /\ UNCHANGED serviceVars

NextSanitize == SanitizeDirect

SpecSanitize == InitSanitize /\ [][NextSanitize]_vars

(***************************************************************************)
(* The five functions run to their return: the Image Stripper and the      *)
(* Delimiter Scanner one loop pass a step, the others in one step.         *)
(***************************************************************************)

InitLoops ==
    /\ impl = "app"
    /\ src = <<>>
    /\ attribution_text = <<>>
    /\ md_text = <<>>
    /\ prev = <<>>
    /\ removals = <<>>
    /\ stages = <<>>
    /\ runs = 0
    /\ pc = "idle"
    /\ NoScan
    /\ NoLoop
    /\ NoService

\* one of the five functions is called on a text
Enter ==
    /\ pc = "idle"
    /\ op' \in {"strip", "scan", "normalize", "inject", "sanitize"}
    /\ impl' \in (IF op' \in {"strip", "inject"} THEN Impls ELSE {"app"})
    /\ src' \in (IF op' \in {"strip", "scan"} THEN LoopTexts ELSE CallTexts)
    /\ attribution_text' \in (IF op' = "inject" THEN OrchAttributions ELSE {<<>>})
    /\ md_text' = IF op' = "strip" THEN <<>> ELSE src'
    /\ prev' = src'
    /\ pc' = IF op' = "strip" THEN "strip_loop" ELSE IF op' = "scan" THEN "scan" ELSE "call"
    /\ phase' = IF op' = "scan" THEN "direct" ELSE ""
    /\ loop_i' = IF op' = "strip" THEN 1 ELSE 0
    /\ IF op' = "scan"
       THEN /\ \E pair \in DelimiterPairs : scan_open' = pair[1] /\ scan_close' = pair[2]
            /\ scan_start' \in {k \in 1..Len(src') : src'[k] = scan_open'}
       ELSE scan_open' = "" /\ scan_close' = "" /\ scan_start' = 0
    /\ scan_i' = scan_start'
    /\ UNCHANGED <<removals, stages, runs, loop_j, alt_end, scan_depth, scan_found, reads>>
    /\ UNCHANGED serviceVars

\* _find_closing_delimiter(md_text, start, open_ch, close_ch) is entered
CallScanner(start, open_ch, close_ch, what) ==
    /\ scan_start' = start
    /\ scan_open' = open_ch
    /\ scan_close' = close_ch
    /\ scan_i' = start
    /\ scan_depth' = 0
    /\ scan_found' = 0
    /\ phase' = what
    /\ pc' = "scan"

\* out.append(ch); i += 1; continue
EmitLiteral ==
    /\ md_text' = Append(md_text, src[loop_i])
    /\ loop_i' = loop_i + 1
    /\ phase' = ""
    /\ pc' = "strip_loop"

\* one pass of the loop of _strip_markdown_images up to its first call of the
\* Delimiter Scanner
StripTest ==
    /\ pc = "strip_loop"
    /\ loop_i <= Len(src)
    /\ reads' = reads \cup CandidateReads(src, loop_i)
    /\ IF IsCandidate(src, loop_i)
       THEN /\ CallScanner(loop_i + 1, "[", "]", "alt")
            /\ UNCHANGED <<md_text, loop_i>>
       ELSE /\ EmitLiteral
            /\ UNCHANGED <<scan_start, scan_open, scan_close, scan_i, scan_depth, scan_found>>
    /\ UNCHANGED <<impl, src, attribution_text, prev, removals, stages, runs, op,
                   loop_j, alt_end>>
    /\ UNCHANGED serviceVars

\* the loop of _strip_markdown_images ends: return "".join(out), removals
StripReturn ==
    /\ pc = "strip_loop"
    /\ loop_i > Len(src)
    /\ pc' = "returned"
    /\ UNCHANGED <<impl, src, attribution_text, md_text, prev, removals, stages, runs>>
    /\ UNCHANGED scanVars
    /\ UNCHANGED <<op, phase, loop_i, loop_j, alt_end, scan_i, scan_depth, reads>>
    /\ UNCHANGED serviceVars

\* one pass of the loop of _find_closing_delimiter
ScanPass ==
    /\ pc = "scan"
    /\ scan_i <= Len(src)
    /\ reads' = reads \cup {scan_i}
    /\ LET ch == src[scan_i]
       IN  IF ch = "\\"
           THEN scan_i' = scan_i + 2 /\ UNCHANGED <<scan_depth, scan_found, pc>>
           ELSE IF ch = scan_open
           THEN scan_i' = scan_i + 1 /\ scan_depth' = scan_depth + 1
                /\ UNCHANGED <<scan_found, pc>>
           ELSE IF ch = scan_close
           THEN IF scan_depth - 1 = 0
                THEN scan_found' = scan_i /\ pc' = "scan_returned"
                     /\ scan_depth' = scan_depth - 1 /\ UNCHANGED scan_i
                ELSE scan_i' = scan_i + 1 /\ scan_depth' = scan_depth - 1
                     /\ UNCHANGED <<scan_found, pc>>
           ELSE scan_i' = scan_i + 1 /\ UNCHANGED <<scan_depth, scan_found, pc>>
    /\ UNCHANGED <<impl, src, attribution_text, md_text, prev, removals, stages, runs>>
    /\ UNCHANGED <<scan_start, scan_open, scan_close, op, phase, loop_i, loop_j, alt_end>>
    /\ UNCHANGED serviceVars

\* the loop of _find_closing_delimiter ends: return None
ScanExhausted ==
    /\ pc = "scan"
    /\ scan_i > Len(src)
    /\ scan_found' = 0
    /\ pc' = "scan_returned"
    /\ UNCHANGED <<impl, src, attribution_text, md_text, prev, removals, stages, runs>>
    /\ UNCHANGED <<scan_start, scan_open, scan_close>>
    /\ UNCHANGED <<op, phase, loop_i, loop_j, alt_end, scan_i, scan_depth, reads>>
    /\ UNCHANGED serviceVars

\* the Delimiter Scanner returns to a caller other than the Image Stripper
ScanReturned ==
    /\ pc = "scan_returned"
    /\ phase = "direct"
    /\ pc' = "returned"
    /\ UNCHANGED <<impl, src, attribution_text, md_text, prev, removals, stages, runs>>
    /\ UNCHANGED scanVars
    /\ UNCHANGED <<op, phase, loop_i, loop_j, alt_end, scan_i, scan_depth, reads>>
    /\ UNCHANGED serviceVars

\* alt_close is back: the spaces are skipped and the target or the label is
\* looked for
AfterAlt ==
    /\ pc = "scan_returned"
    /\ phase = "alt"
    /\ IF scan_found = 0
       THEN /\ EmitLiteral
            /\ UNCHANGED <<loop_j, alt_end, reads>>
            /\ UNCHANGED <<scan_start, scan_open, scan_close, scan_i, scan_depth, scan_found>>
       ELSE LET j == SkipSpaces(src, scan_found + 1)
            IN  /\ reads' = reads \cup SpaceReads(src, scan_found + 1)
                /\ alt_end' = scan_found
                /\ loop_j' = j
                /\ IF j <= Len(src) /\ src[j] = "("
                   THEN CallScanner(j, "(", ")", "target") /\ UNCHANGED <<md_text, loop_i>>
                   ELSE IF j <= Len(src) /\ src[j] = "["
                   THEN CallScanner(j, "[", "]", "label") /\ UNCHANGED <<md_text, loop_i>>
                   ELSE /\ EmitLiteral
                        /\ UNCHANGED <<scan_start, scan_open, scan_close, scan_i,
                                       scan_depth, scan_found>>
    /\ UNCHANGED <<impl, src, attribution_text, prev, removals, stages, runs, op>>
    /\ UNCHANGED serviceVars

\* target_close or label_close is back: the span is logged and skipped
AfterTargetOrLabel ==
    /\ pc = "scan_returned"
    /\ phase \in {"target", "label"}
    /\ IF scan_found = 0
       THEN EmitLiteral /\ UNCHANGED removals
       ELSE /\ removals' = Append(removals,
                   IF phase = "target"
                   THEN InlineSummary(impl, Slice(src, loop_i + 2, alt_end - 1),
                                      Slice(src, loop_j + 1, scan_found - 1))
                   ELSE RefSummary(impl, Slice(src, loop_i + 2, alt_end - 1),
                                   Slice(src, loop_j + 1, scan_found - 1)))
            /\ loop_i' = scan_found + 1
            /\ phase' = ""
            /\ pc' = "strip_loop"
            /\ UNCHANGED md_text
    /\ UNCHANGED <<impl, src, attribution_text, prev, stages, runs>>
    /\ UNCHANGED scanVars
    /\ UNCHANGED <<op, loop_j, alt_end, scan_i, scan_depth, reads>>
    /\ UNCHANGED serviceVars

\* what a function called in one step leaves alone
CallFrame ==
    /\ pc' = "returned"
    /\ UNCHANGED <<impl, src, attribution_text, prev, removals, stages, runs>>
    /\ UNCHANGED scanVars
    /\ UNCHANGED loopVars
    /\ UNCHANGED serviceVars

NormalizeCall ==
    /\ pc = "call"
    /\ op = "normalize"
    /\ md_text' = normalize_horizontal_rules_for_pdf(src)
    /\ CallFrame

InjectCall ==
    /\ pc = "call"
    /\ op = "inject"
    /\ md_text' = inject_attribution_to_blockquotes(impl, src, attribution_text)
    /\ CallFrame

SanitizeCall ==
    /\ pc = "call"
    /\ op = "sanitize"
    /\ md_text' = sanitize_symbols(src)
    /\ CallFrame

NextLoops ==
    \/ Enter
    \/ StripTest
    \/ StripReturn
    \/ ScanPass
    \/ ScanExhausted
    \/ ScanReturned
    \/ AfterAlt
    \/ AfterTargetOrLabel
    \/ NormalizeCall
    \/ InjectCall
    \/ SanitizeCall

\* the steps of the two while loops and of their returns
RunLoops ==
    \/ StripTest
    \/ StripReturn
    \/ ScanPass
    \/ ScanExhausted
    \/ ScanReturned
    \/ AfterAlt
    \/ AfterTargetOrLabel

\* a loop that can take a step takes it
SpecLoops == InitLoops /\ [][NextLoops]_vars /\ WF_vars(RunLoops)

(***************************************************************************)
(* A pipeline job: the request that starts it, its background task, and    *)
(* the requests for its status and its PDF that run beside the task.       *)
(***************************************************************************)

\* json.dumps(payload) of write_status, without "job_id" and "updated_at"
Payload(status, message) == [status |-> status, message |-> message]

\* no write_status has the file open
NoPayload == [status |-> "", message |-> ""]

\* what read_status returns: None, a payload, or the exception of json.loads
NoRead == [outcome |-> "", status |-> "", message |-> ""]

\* read_status(job_id): no file, a file that write_text has opened (truncated)
\* and not yet written, or a file with a payload
read_status(file) ==
    IF file.state = "absent" THEN [outcome |-> "none", status |-> "", message |-> ""]
    ELSE IF file.state = "open" THEN [outcome |-> "raised", status |-> "", message |-> ""]
    ELSE [outcome |-> "payload", status |-> file.status, message |-> file.message]

\* the statuses for which the endpoints answer with the job's result
FinalStatuses == {"done", "failed_to_convert"}

\* the answer of pipeline_status to what read_status returned
status_code(got) ==
    IF got.outcome = "raised" THEN 500
    ELSE IF got.outcome = "none" THEN 404
    ELSE IF got.status \notin FinalStatuses THEN 202
    ELSE 200

\* file_manager.find_pdf: the cached PDF of the job, if there is one
find_pdf(cached) == cached

\* the answer of pipeline_download to what read_status returned
download_code(got, cached) ==
    IF got.outcome = "raised" THEN 500
    ELSE IF got.outcome = "none" THEN 404
    ELSE IF got.status \notin FinalStatuses THEN 202
    ELSE IF got.status = "failed_to_convert" THEN 409
    ELSE IF find_pdf(cached) THEN 200
    ELSE 500

\* what the request handlers and the task leave alone
JobFrame ==
    /\ UNCHANGED textVars
    /\ UNCHANGED retryVars
    /\ UNCHANGED metaVars

\* write_status(job_id, status, message) up to the opening of status.json,
\* which truncates it; the task goes on at next_pc once the write is closed
write_status(status, message, next_pc) ==
    /\ pending' = Payload(status, message)
    /\ written' = written \cup {Payload(status, message)}
    /\ status_file' = [state |-> "open", status |-> "", message |-> ""]
    /\ job_pc' = next_pc

\* the rest of write_status: the payload is written and the file closed
WriteClose ==
    /\ pending /= NoPayload
    /\ status_file' = [state |-> "complete", status |-> pending.status, message |-> pending.message]
    /\ history' = Append(history, pending.status)
    /\ pending' = NoPayload
    /\ UNCHANGED <<job_pc, written, raised, cached_pdf, answer>>
    /\ JobFrame

\* POST /api/v1/pipeline up to the write of "queued"; a request that fails
\* the validation is answered 422
PipelineStart ==
    /\ job_pc = "no_request"
    /\ \E valid \in BOOLEAN :
          IF valid
          THEN /\ write_status("queued", "", "saving")
               /\ UNCHANGED answer
          ELSE /\ answer' = [kind |-> "start", at |-> job_pc, code |-> 422, got |-> NoRead]
               /\ UNCHANGED <<job_pc, status_file, pending, written>>
    /\ UNCHANGED <<history, raised, cached_pdf>>
    /\ JobFrame

\* the rest of POST /api/v1/pipeline: the upload is saved, the task queued,
\* the request answered 202
SaveAndAccept ==
    /\ job_pc = "saving"
    /\ pending = NoPayload
    /\ job_pc' = "accepted"
    /\ answer' = [kind |-> "start", at |-> job_pc, code |-> 202, got |-> NoRead]
    /\ UNCHANGED <<status_file, pending, history, written, raised, cached_pdf>>
    /\ JobFrame

\* run_pipeline up to the call of the generator
RunPipeline ==
    /\ job_pc = "accepted"
    /\ write_status("generating_md", "", "generating")
    /\ UNCHANGED <<history, raised, cached_pdf, answer>>
    /\ JobFrame

\* generate_markdown_from_input returns or raises
Generate ==
    /\ job_pc = "generating"
    /\ pending = NoPayload
    /\ \E ok \in BOOLEAN :
          IF ok
          THEN /\ write_status("generating_pdf", "", "converting")
               /\ UNCHANGED raised
          ELSE /\ raised' = "generation failed"
               /\ job_pc' = "except"
               /\ UNCHANGED <<status_file, pending, written>>
    /\ UNCHANGED <<history, cached_pdf, answer>>
    /\ JobFrame

\* _convert_latest_markdown_to_pdf: convert_markdown_to_pdf returns or raises
Convert ==
    /\ job_pc = "converting"
    /\ pending = NoPayload
    /\ \E ok \in BOOLEAN :
          IF ok
          THEN /\ job_pc' = "caching"
               /\ UNCHANGED <<status_file, pending, written, raised>>
          ELSE /\ write_status("failed_to_convert", "conversion failed", "reraising")
               /\ raised' = "conversion failed"
    /\ UNCHANGED <<history, cached_pdf, answer>>
    /\ JobFrame

\* _cleanup_conversion_artifacts; raise
Reraise ==
    /\ job_pc = "reraising"
    /\ pending = NoPayload
    /\ job_pc' = "except"
    /\ UNCHANGED <<status_file, pending, history, written, raised, cached_pdf, answer>>
    /\ JobFrame

\* file_manager.cache_job_pdf: the PDF is put into the job's cache
cache_job_pdf(cached) == TRUE

\* the task writes "generating_pdf" a second time in the place of "done"
CacheAndFinish_not_done ==
    /\ job_pc = "caching"
    /\ cached_pdf' = cache_job_pdf(cached_pdf)
    /\ write_status("generating_pdf", "", "returning")
    /\ UNCHANGED <<history, raised, answer>>
    /\ JobFrame

\* run_pipeline after the conversion: the PDF is cached, the conversion's
\* directories are removed, "done" is written
CacheAndFinish ==
    /\ job_pc = "caching"
    /\ cached_pdf' = cache_job_pdf(cached_pdf)
    /\ write_status("done", "", "returning")
    /\ UNCHANGED <<history, raised, answer>>
    /\ JobFrame

\* except Exception as exc of _run_pipeline_job
JobExcept ==
    /\ job_pc = "except"
    /\ write_status("failed", raised, "returning")
    /\ UNCHANGED <<history, raised, cached_pdf, answer>>
    /\ JobFrame

\* _run_pipeline_job returns
TaskReturn ==
    /\ job_pc = "returning"
    /\ pending = NoPayload
    /\ job_pc' = "returned"
    /\ UNCHANGED <<status_file, pending, history, written, raised, cached_pdf, answer>>
    /\ JobFrame

\* GET /api/v1/pipeline/{job_id}
PipelineStatus ==
    /\ answer' = [kind |-> "status", at |-> job_pc,
                  code |-> status_code(read_status(status_file)),
                  got |-> read_status(status_file)]
    /\ UNCHANGED <<job_pc, status_file, pending, history, written, raised, cached_pdf>>
    /\ JobFrame

\* GET /api/v1/pipeline/{job_id}/download
PipelineDownload ==
    /\ answer' = [kind |-> "download", at |-> job_pc,
                  code |-> download_code(read_status(status_file), cached_pdf),
                  got |-> read_status(status_file)]
    /\ UNCHANGED <<job_pc, status_file, pending, history, written, raised, cached_pdf>>
    /\ JobFrame

InitJob ==
    /\ impl = "app"
    /\ src = <<>>
    /\ attribution_text = <<>>
    /\ md_text = <<>>
    /\ prev = <<>>
    /\ removals = <<>>
    /\ stages = <<>>
    /\ runs = 0
    /\ pc = "idle"
    /\ NoScan
    /\ NoLoop
    /\ NoService

\* the steps of the handler that accepts a job and of the job's task
RunJob ==
    \/ WriteClose
    \/ SaveAndAccept
    \/ RunPipeline
    \/ Generate
    \/ Convert
    \/ Reraise
    \/ CacheAndFinish
    \/ JobExcept
    \/ TaskReturn

NextJob ==
    \/ PipelineStart
    \/ WriteClose
    \/ SaveAndAccept
    \/ RunPipeline
    \/ Generate
    \/ Convert
    \/ Reraise
    \/ CacheAndFinish
    \/ JobExcept
    \/ TaskReturn
    \/ PipelineStatus
    \/ PipelineDownload

\* a handler that has begun runs to its answer, a queued task is run, and the
\* calls of the generator and of the converter come back
SpecJob == InitJob /\ [][NextJob]_vars /\ WF_vars(RunJob)

(***************************************************************************)
(* _generate_with_retry: the requests to the model, one attempt a pass.    *)
(***************************************************************************)

MAX_RETRIES == 2

INVALID_KEYWORDS ==
    << <<"U+540C", "U+69D8", "U+306E", "U+624B", "U+9806">>,
       <<"U+540C", "U+69D8", "U+306E", "U+51E6", "U+7406">>,
       <<"U+540C", "U+69D8", "U+306E", "U+65B9", "U+6CD5">>,
       <<"U+4EE5", "U+4E0B", "U+540C", "U+69D8">>,
       <<"U+6B8B", "U+308A", "U+306E", "U+554F", "U+984C">>,
       <<"U+4EE5", "U+964D", "U+306E", "U+89E3", "U+7B54">>,
       <<"U+4EE5", "U+964D", "U+306E", "U+89E3", "U+8AAC">>,
       <<"U+4EE5", "U+964D", "U+3001", "U+6587", "U+5B57", "U+6570", "U+5236", "U+9650">>,
       <<"U+6307", "U+793A", "U+306B", "U+5F93", "U+3044", "U+9806", "U+6B21", "U+4F5C", "U+6210">>,
       <<"U+9806", "U+6B21", "U+4F5C", "U+6210">>,
       <<"U+540C", "U+69D8", "U+306B", "U+4F5C", "U+6210">>,
       <<"U+FF08", "U+7D9A", "U+304F", "U+FF09">>,
       <<"(", "U+4EE5", "U+964D", "U+3001", "U+5404">>,
       <<"U+540C", "U+69D8", "U+306E", "U+8A73", "U+7D30", "U+306A", "U+89E3", "U+8AAC">>,
       <<"U+7D9A", "U+304D", "U+306E", "U+89E3", "U+7B54", "U+89E3", "U+8AAC">>,
       <<"(", "U+4EE5", "U+964D", "U+3001", "U+5168", "U+3066">>,
       <<"(", "U+4EE5", "U+964D", "U+3001", "U+3059", "U+3079", "U+3066">>,
       <<"(", "U+4EE5", "U+964D", "U+3001", "U+540C", "U+69D8", "U+306E">>,
       <<"U+FF08", "U+4EE5", "U+964D", "U+306E", "U+554F", "U+984C", "U+3082", "U+540C", "U+69D8">> >>

\* _contains_invalid_keyword(text)
contains_invalid_keyword(text) ==
    \E k \in 1..Len(INVALID_KEYWORDS) : Contains(INVALID_KEYWORDS[k], text)

IsNonEmpty(t) == t /= <<>>

\* _extract_text(response): response.text if it is not empty, else the texts
\* of the candidates' parts that are not empty, joined and stripped
extract_text(response) ==
    IF response.text /= <<>> THEN response.text
    ELSE strip(join(SelectSeq(response.parts, IsNonEmpty)))

\* texts a response of the model holds: none, acceptable ones, ones with an
\* invalid keyword
ResponseTexts ==
    {<<>>,
     <<"a">>,
     <<"b">>,
     <<"a">> \o INVALID_KEYWORDS[10],
     INVALID_KEYWORDS[12] \o <<"b">>}

\* what a request to the model gives: a response with a text, a response
\* with the text in the parts of its candidates, or an exception
RequestOutcomes ==
    {[kind |-> "response", text |-> t, parts |-> <<>>, error |-> ""] : t \in ResponseTexts}
    \cup {[kind |-> "response", text |-> <<>>, parts |-> ps, error |-> ""] :
             ps \in {<< <<"a">>, <<>>, <<" ">> >>, << <<" ">> >>}}
    \cup {[kind |-> "raised", text |-> <<>>, parts |-> <<>>, error |-> e] :
             e \in {"timeout", "unavailable"}}

\* what the other programs leave alone while _generate_with_retry runs
RetryFrame ==
    /\ UNCHANGED textVars
    /\ UNCHANGED jobVars
    /\ UNCHANGED metaVars

\* client.models.generate_content(...) and _extract_text(response), with the
\* except clause
Request ==
    /\ retry_pc = "request"
    /\ \E outcome \in RequestOutcomes :
          /\ outcomes' = Append(outcomes, outcome)
          /\ IF outcome.kind = "raised"
             THEN /\ last_error' = outcome.error
                  /\ response_text' = <<>>
             ELSE /\ response_text' = extract_text(outcome)
                  /\ UNCHANGED last_error
    /\ retry_pc' = "check"
    /\ UNCHANGED <<attempt, sleeps, result>>
    /\ RetryFrame

\* if response_text and not _contains_invalid_keyword(response_text): return
Return ==
    /\ retry_pc = "check"
    /\ response_text /= <<>>
    /\ ~contains_invalid_keyword(response_text)
    /\ result' = response_text
    /\ retry_pc' = "returned"
    /\ UNCHANGED <<attempt, response_text, last_error, outcomes, sleeps>>
    /\ RetryFrame

\* if attempt < MAX_RETRIES - 1: time.sleep(delay), and the next pass of
\* "for attempt in range(MAX_RETRIES)" or the loop's end
Retry ==
    /\ retry_pc = "check"
    /\ ~(response_text /= <<>> /\ ~contains_invalid_keyword(response_text))
    /\ sleeps' = IF attempt < MAX_RETRIES - 1 THEN sleeps + 1 ELSE sleeps
    /\ attempt' = attempt + 1
    /\ retry_pc' = IF attempt + 1 < MAX_RETRIES THEN "request" ELSE "exhausted"
    /\ UNCHANGED <<response_text, last_error, outcomes, result>>
    /\ RetryFrame

\* the statements after the loop, returning response_text whatever it is
AfterLoop_unchecked ==
    /\ retry_pc = "exhausted"
    /\ result' = response_text
    /\ retry_pc' = "returned"
    /\ UNCHANGED <<attempt, response_text, last_error, outcomes, sleeps>>
    /\ RetryFrame

\* the statements after the loop: RuntimeError if response_text is empty,
\* else return response_text
AfterLoop ==
    /\ retry_pc = "exhausted"
    /\ IF response_text = <<>>
       THEN /\ retry_pc' = "raised"
            /\ UNCHANGED result
       ELSE /\ result' = response_text
            /\ retry_pc' = "returned"
    /\ UNCHANGED <<attempt, response_text, last_error, outcomes, sleeps>>
    /\ RetryFrame

InitRetry ==
    /\ IdleText
    /\ NoJob
    /\ NoMeta
    /\ retry_pc = "request"
    /\ attempt = 0
    /\ response_text = <<>>
    /\ last_error = ""
    /\ outcomes = <<>>
    /\ sleeps = 0
    /\ result = <<>>

NextRetry ==
    \/ Request
    \/ Return
    \/ Retry
    \/ AfterLoop

\* a request to the model comes back (HTTP_TIMEOUT_MS) and the function goes on
SpecRetry == InitRetry /\ [][NextRetry]_vars /\ WF_vars(NextRetry)

(***************************************************************************)
(* add_metadata: the loop of main over the files, and the signals.         *)
(***************************************************************************)

\* the most files add_metadata is started on
MaxFiles == 2

\* what the other programs leave alone while add_metadata runs
MetaFrame ==
    /\ UNCHANGED textVars
    /\ UNCHANGED jobVars
    /\ UNCHANGED retryVars

\* _request_stop(signum, frame)
request_stop ==
    IF ~STOP_REQUESTED
    THEN /\ STOP_REQUESTED' = TRUE
         /\ started_at_stop' = started
    ELSE UNCHANGED <<STOP_REQUESTED, started_at_stop>>

\* SIGINT or SIGTERM is delivered to the running script, whose handler runs
\* between two steps of main
Signal ==
    /\ meta_pc \in {"loop", "processing", "after_loop", "exiting"}
    /\ handlers = "installed"
    /\ request_stop
    /\ UNCHANGED <<meta_pc, files_n, file_i, successes, failures, errs, exit_code, started, handlers>>
    /\ MetaFrame

\* for f in files: if STOP_REQUESTED: break
NextFile ==
    /\ meta_pc = "loop"
    /\ IF file_i > files_n \/ STOP_REQUESTED
       THEN /\ meta_pc' = "after_loop"
            /\ UNCHANGED started
       ELSE /\ meta_pc' = "processing"
            /\ started' = started + 1
    /\ UNCHANGED <<files_n, file_i, STOP_REQUESTED, successes, failures, errs, exit_code,
                   started_at_stop, handlers>>
    /\ MetaFrame

\* process_file(...) returns True, returns False or raises an Exception
ProcessFile ==
    /\ meta_pc = "processing"
    /\ \E outcome \in {"ok", "not ok", "raised"} :
          IF outcome = "ok"
          THEN /\ successes' = Append(successes, file_i)
               /\ UNCHANGED <<failures, errs>>
          ELSE /\ failures' = Append(failures, file_i)
               /\ errs' = errs + 1
               /\ UNCHANGED successes
    /\ file_i' = file_i + 1
    /\ meta_pc' = "loop"
    /\ UNCHANGED <<files_n, STOP_REQUESTED, exit_code, started, started_at_stop, handlers>>
    /\ MetaFrame

\* except KeyboardInterrupt: break (SIGINT with Python's own handler, where
\* signal.signal failed)
Interrupted ==
    /\ meta_pc = "processing"
    /\ handlers = "default"
    /\ meta_pc' = "after_loop"
    /\ UNCHANGED <<files_n, file_i, STOP_REQUESTED, successes, failures, errs, exit_code,
                   started, started_at_stop, handlers>>
    /\ MetaFrame

\* if STOP_REQUESTED: ... elif errs: ... else: ..., up to the print of the
\* branch taken
ChooseExit ==
    /\ meta_pc = "after_loop"
    /\ exit_code' = IF STOP_REQUESTED THEN 130 ELSE IF errs /= 0 THEN 2 ELSE 0
    /\ meta_pc' = "exiting"
    /\ UNCHANGED <<files_n, file_i, STOP_REQUESTED, successes, failures, errs,
                   started, started_at_stop, handlers>>
    /\ MetaFrame

\* sys.exit(130), sys.exit(2) or the end of main
Exit ==
    /\ meta_pc = "exiting"
    /\ meta_pc' = "exited"
    /\ UNCHANGED <<files_n, file_i, STOP_REQUESTED, successes, failures, errs, exit_code,
                   started, started_at_stop, handlers>>
    /\ MetaFrame

\* main after signal.signal: files is not empty, nothing has been processed
InitMeta ==
    /\ IdleText
    /\ NoJob
    /\ NoRetry
    /\ meta_pc = "loop"
    /\ files_n \in 1..MaxFiles
    /\ file_i = 1
    /\ STOP_REQUESTED = FALSE
    /\ successes = <<>>
    /\ failures = <<>>
    /\ errs = 0
    /\ exit_code = -1
    /\ started = 0
    /\ started_at_stop = -1
    /\ handlers \in {"installed", "default"}

NextMeta ==
    \/ Signal
    \/ NextFile
    \/ ProcessFile
    \/ Interrupted
    \/ ChooseExit
    \/ Exit

SpecMeta == InitMeta /\ [][NextMeta]_vars

(***************************************************************************)
(* Properties.                                                             *)
(***************************************************************************)

\* A complete image construct starts at position i of t: an unescaped "!", a
\* balanced "[...]" right after it, optional whitespace, then a balanced
\* "(...)" or "[...]".
ImageAt(t, i) ==
    /\ t[i] = "!"
    /\ (i = 1 \/ t[i - 1] /= "\\")
    /\ i + 1 <= Len(t)
    /\ t[i + 1] = "["
    /\ LET alt_close == find_closing_delimiter(t, i + 1, "[", "]")
           j == SkipSpaces(t, alt_close + 1)
       IN  /\ alt_close /= 0
           /\ j <= Len(t)
           /\ \/ t[j] = "(" /\ find_closing_delimiter(t, j, "(", ")") /= 0
              \/ t[j] = "[" /\ find_closing_delimiter(t, j, "[", "]") /= 0

HasImage(t) == \E i \in 1..Len(t) : ImageAt(t, i)

\* C1: the text an orchestrator ends with holds no complete image construct.
C1_NoImageInOutput == pc = "done" => ~HasImage(md_text)

\* C2: the text an orchestrator ends with has no line of three or more "-" and
\* nothing else outside its leading front-matter block (stated for the
\* documents that are handed in without a front-matter block).
C2_NoBareRuleInOutput ==
    (pc = "done" /\ find_front_matter_end(splitlines(src)) = 0)
    => LET lines == splitlines(md_text)
       IN  \A k \in 1..Len(lines) :
               IsBareRule(lines[k]) => k <= find_front_matter_end(lines)

\* C3: stripping the text the Image Stripper returned returns the same text
\* and removes nothing.
C3_StripIdempotent == pc = "restripped" => (md_text = prev /\ removals = <<>>)

\* C4: a further run of the injector with the same attribution returns the
\* text of the run before it.
C4_InjectIdempotent == (pc = "injected" /\ runs >= 2) => md_text = prev

\* the blocks of quote lines of a sequence of lines
QuoteBlocks(lines) ==
    {SubSeq(lines, i, BlockEnd(lines, i) - 1) :
        i \in {k \in 1..Len(lines) :
                  IsQuoteLine(lines[k]) /\ (k = 1 \/ ~IsQuoteLine(lines[k - 1]))}}

\* C5: after one run of the injector every blockquote block of its output
\* carries a citation footer (one of the footer's markers in its last lines).
C5_EveryBlockHasFooter ==
    (pc = "injected" /\ runs = 1)
    => \A block \in QuoteBlocks(splitlines(md_text)) :
           has_attr(impl, block, attribution_text)

\* how often the five lines of the snippet occur as consecutive lines
SnippetCount(lines, attr) ==
    Cardinality({k \in 1..Len(lines) :
        k + 4 <= Len(lines) /\ SubSeq(lines, k, k + 4) = quoted_snippet(attr)})

\* the text the injector stage of an orchestrator is handed for a document
InjectorInput(which, doc) == IF which = "app" THEN PrependBanner(doc) ELSE doc

\* C6: the text an orchestrator ends with carries as many complete snippets
\* as its injector stage appended.
C6_SnippetsSurvive ==
    pc = "done"
    => LET before == InjectorInput(impl, src)
           after == inject_attribution_to_blockquotes(impl, before, attribution_text)
       IN  SnippetCount(splitlines(md_text), attribution_text)
               = SnippetCount(splitlines(after), attribution_text)

\* C7: both orchestrators apply injection, normalization, banner, image
\* stripping and symbol sanitizing in this order.
C7_FixedStageOrder ==
    pc = "done" => stages = <<"inject", "normalize", "banner", "strip", "sanitize">>

\* the front-matter block of a document: its lines up to the first closing line
FrontMatter(doc) ==
    LET lines == splitlines(doc)
        closing == {k \in 2..Len(lines) : strip(lines[k]) \in {S_rule, S_dots}}
    IN  IF lines /= <<>> /\ strip(lines[1]) = S_rule /\ closing /= {}
        THEN SubSeq(lines, 1, CHOOSE k \in closing : \A m \in closing : k <= m)
        ELSE <<>>

\* whether the lines of run occur as consecutive lines of lines
HasRun(lines, run) ==
    \E k \in 0..(Len(lines) - Len(run)) : SubSeq(lines, k + 1, k + Len(run)) = run

\* lines no other stage changes: no quote line, no "!", no symbol of the sanitizer
PlainLines(ls) ==
    \A k \in 1..Len(ls) :
        /\ ~IsQuoteLine(ls[k])
        /\ \A d \in 1..Len(ls[k]) :
               ls[k][d] \notin ({"!", "U+2610", "U+2611", "U+26AA", "U+2B1C"} \cup AstralChars)

\* C8: once an orchestrator has normalized the rules, and to its end, the
\* front-matter block of the document it was handed is still in the text,
\* line for line.
C8_FrontMatterKeptByOrchestrator ==
    LET fm == FrontMatter(src)
    IN  (fm /= <<>> /\ PlainLines(fm) /\ \E k \in 1..Len(stages) : stages[k] = "normalize")
        => HasRun(splitlines(md_text), fm)

\* C9: called on a text with a front-matter block, the normalizer returns every
\* line of the block, the closing line included, as it was.
C9_FrontMatterVerbatim ==
    pc = "rules_done"
    => LET fm == FrontMatter(src)
           out == splitlines(md_text)
       IN  /\ Len(out) = Len(splitlines(src))
           /\ \A k \in 1..Len(fm) : out[k] = fm[k]

\* C9 witness: a text whose front-matter block holds a line of four "-" and is
\* followed by a bare rule, which the normalizer rewrote.
C9_Witness ==
    /\ pc = "rules_done"
    /\ Len(FrontMatter(src)) = 3
    /\ FrontMatter(src)[2] = <<"-", "-", "-", "-">>
    /\ Len(splitlines(src)) > 3
    /\ md_text /= src

\* the inline image "![alt](u)"
SimpleImage == <<"!", "[">> \o ImageAlt \o <<"]", "(">> \o ImageTarget \o <<")">>

\* C10: for a complete inline image the Image Stripper emits nothing and logs
\* one entry that holds the alt text and the target, in both implementations.
C10_InlineImageLogged ==
    (pc = "stripped" /\ src = SimpleImage)
    => /\ md_text = <<>>
       /\ Len(removals) = 1
       /\ Contains(ImageAlt, removals[1])
       /\ Contains(ImageTarget, removals[1])

\* the positions of t where a complete image construct starts
ImageStarts(t) == {i \in 1..Len(t) : ImageAt(t, i)}

\* whether the image construct at position i of t is an inline image
IsInlineAt(t, i) ==
    t[SkipSpaces(t, find_closing_delimiter(t, i + 1, "[", "]") + 1)] = "("

\* the position of the ")" or "]" that closes the target or label of the image
\* construct at position i of t
SpanEnd(t, i) ==
    LET j == SkipSpaces(t, find_closing_delimiter(t, i + 1, "[", "]") + 1)
    IN  IF t[j] = "(" THEN find_closing_delimiter(t, j, "(", ")")
        ELSE find_closing_delimiter(t, j, "[", "]")

\* the log entry of the image construct at position i of t
SpanEntry(which, t, i) ==
    LET alt_close == find_closing_delimiter(t, i + 1, "[", "]")
        j == SkipSpaces(t, alt_close + 1)
        alt_text == Slice(t, i + 2, alt_close - 1)
        rest == Slice(t, j + 1, SpanEnd(t, i) - 1)
    IN  IF IsInlineAt(t, i) THEN InlineSummary(which, alt_text, rest)
        ELSE RefSummary(which, alt_text, rest)

\* the k-th smallest element of a set of numbers
KthOf(S, k) == CHOOSE p \in S : Cardinality({q \in S : q <= p}) = k

\* t without the spans that start at the positions of starts
WithoutSpans(t, starts) ==
    LET kept == {p \in 1..Len(t) : \A a \in starts : p < a \/ p > SpanEnd(t, a)}
    IN  [k \in 1..Cardinality(kept) |-> t[KthOf(kept, k)]]

\* C11: the text the Image Stripper returns is its input without some disjoint
\* image spans, each from an unescaped "![" to the delimiter closing its target
\* or label, every other character kept in order; the log has one entry per
\* span in document order; a text with no "![" comes back unchanged with an
\* empty log.
C11_OnlySpansRemoved ==
    pc = "stripped"
    => /\ \E starts \in SUBSET ImageStarts(src) :
              /\ \A a, b \in starts : a < b => SpanEnd(src, a) < b
              /\ md_text = WithoutSpans(src, starts)
              /\ Len(removals) = Cardinality(starts)
              /\ \A k \in 1..Len(removals) :
                     removals[k] = SpanEntry(impl, src, KthOf(starts, k))
       /\ (~\E i \in 1..(Len(src) - 1) : src[i] = "!" /\ src[i + 1] = "[")
          => (md_text = src /\ removals = <<>>)

\* C11 witness: a text of which one span was removed and in which a "!" and
\* the characters after the span were kept.
C11_Witness ==
    /\ pc = "stripped"
    /\ Len(removals) = 1
    /\ md_text /= <<>>
    /\ md_text[1] = "!"
    /\ SpanEnd(src, KthOf(ImageStarts(src), 1)) < Len(src)

\* the positions of t where an unescaped "![" starts
Candidates(t) ==
    {i \in 1..(Len(t) - 1) :
        t[i] = "!" /\ t[i + 1] = "[" /\ (i = 1 \/ t[i - 1] /= "\\")}

\* C12: when the first candidate "![" of a text has no complete match, the
\* Image Stripper returns the text up to and including that "!" followed by
\* what it returns for the rest of the text from the next character on, log
\* included; a text without any complete image construct comes back unchanged
\* with an empty log.
C12_UnmatchedEmittedLiterally ==
    pc = "stripped"
    => /\ \A i \in Candidates(src) :
              ((\A c \in Candidates(src) : i <= c) /\ ~ImageAt(src, i))
              => LET rest == strip_markdown_images(impl, SubSeq(src, i + 1, Len(src)))
                 IN  /\ md_text = SubSeq(src, 1, i) \o rest.text
                     /\ removals = rest.removals
       /\ ImageStarts(src) = {} => (md_text = src /\ removals = <<>>)

\* C12 witness: the first candidate has no closing "]", and an image inside
\* the text after its "!" was still removed.
C12_Witness ==
    /\ pc = "stripped"
    /\ Candidates(src) /= {}
    /\ ~ImageAt(src, KthOf(Candidates(src), 1))
    /\ Len(removals) = 1
    /\ md_text = <<"!", "[">>

\* whether the scan of t started at s passes over position k without looking
\* at it: an odd number of backslashes stands directly before k
Skipped(t, s, k) ==
    LET run == {m \in 0..(k - s) : \A p \in (k - m)..(k - 1) : t[p] = "\\"}
    IN  (CHOOSE m \in run : \A r \in run : r <= m) % 2 = 1

\* the nesting depth after position k of a scan of t started at the opener at s
DepthAt(t, s, k, o, c) ==
    Cardinality({p \in s..k : t[p] = o /\ ~Skipped(t, s, p)})
    - Cardinality({p \in s..k : t[p] = c /\ ~Skipped(t, s, p)})

\* the first closer that brings the depth to zero, 0 if there is none
MatchingCloser(t, s, o, c) ==
    LET zero == {k \in s..Len(t) :
                    t[k] = c /\ ~Skipped(t, s, k) /\ DepthAt(t, s, k, o, c) = 0}
    IN  IF zero = {} THEN 0 ELSE CHOOSE k \in zero : \A m \in zero : k <= m

\* C13: started at an opening delimiter, the Delimiter Scanner returns the
\* index of the first unescaped closer at which the nesting depth (1 at the
\* opener, +1 per unescaped opener, -1 per unescaped closer) is zero, None if
\* there is none; on "[a\]b]c" from the first character it returns the index
\* of the last "]".
C13_ScannerFindsMatchingCloser ==
    pc = "scanned"
    => /\ scan_found = MatchingCloser(src, scan_start, scan_open, scan_close)
       /\ (src = ScanExample /\ scan_start = 1 /\ scan_open = "[") => scan_found = 6

\* C13 witness: the scan of "[a\]b]c" from its first character has returned
\* the index of the last "]".
C13_Witness ==
    /\ pc = "scanned"
    /\ src = ScanExample
    /\ scan_start = 1
    /\ scan_open = "["
    /\ scan_found = 6

\* whether a line is whitespace, then characters lo..hi that are three or
\* more "-", then whitespace
DashesAt(line, lo, hi) ==
    /\ hi - lo + 1 >= 3
    /\ \A p \in 1..Len(line) :
           IF p < lo \/ p > hi THEN isspace(line[p]) ELSE line[p] = "-"

\* what C14 says a line outside the front matter becomes
RuleRewritten(line) ==
    IF \E lo, hi \in 1..Len(line) : DashesAt(line, lo, hi)
    THEN LET lo == CHOOSE a \in 1..Len(line) : \E hi \in 1..Len(line) : DashesAt(line, a, hi)
         IN  SubSeq(line, 1, lo - 1) \o <<"*", "*", "*">>
    ELSE line

BlockStarts(lines) ==
    {k \in 1..Len(lines) : IsQuoteLine(lines[k]) /\ (k = 1 \/ ~IsQuoteLine(lines[k - 1]))}

\* the blocks of the lines that the injector appends a snippet to
ReceivingBlocks(which, lines, attr) ==
    {k \in BlockStarts(lines) :
        ~has_attr(which, SubSeq(lines, k, BlockEnd(lines, k) - 1), attr)}

\* the lines that are no quote lines, in order
NonQuoteLines(lines) == SelectSeq(lines, LAMBDA l : ~IsQuoteLine(l))

\* C15: after one run of the injector the lines that are no quote lines are
\* those of the input, character for character and in order, and the output
\* has five lines more than the input for every block that received a snippet.
C15_OnlyBlocksGrow ==
    (pc = "injected" /\ runs = 1)
    => LET lines == splitlines(src)
           out == splitlines(md_text)
       IN  /\ NonQuoteLines(out) = NonQuoteLines(lines)
           /\ Len(out) = Len(lines)
                  + 5 * Cardinality(ReceivingBlocks(impl, lines, attribution_text))

\* the markers C16 names
ClaimedMarkers(attr) ==
    {S_begin_flushright, S_QuoteAttribution, DEFAULT_BLOCKQUOTE_ATTRIBUTION}
        \cup (IF attr /= <<>> THEN {attr} ELSE {})

\* whether a marker C16 names occurs in the last TailWindow lines of the block
\* of lines that ends with line k
MarkerInLastLines(lines, k, attr) ==
    LET first == CHOOSE b \in BlockStarts(lines) :
                     b <= k /\ \A c \in BlockStarts(lines) : c <= k => c <= b
        tail == SubSeq(lines, Max(first, k - TailWindow + 1), k)
    IN  \E m \in ClaimedMarkers(attr) : Contains(m, join(tail))

\* whether line k is the last line of a blockquote block
EndsBlock(lines, k) ==
    IsQuoteLine(lines[k]) /\ (k = Len(lines) \/ ~IsQuoteLine(lines[k + 1]))

\* the lines with the snippet after every block that has none of the markers
\* C16 names in its last lines
SnippetsWhereUnmarked(lines, attr) ==
    Concat([k \in 1..Len(lines) |->
        <<lines[k]>> \o (IF EndsBlock(lines, k) /\ ~MarkerInLastLines(lines, k, attr)
                         THEN quoted_snippet(attr) ELSE <<>>)])

\* C16: one run of the injector returns the input with the snippet appended to
\* exactly the blocks whose last 10 lines hold none of "\begin{flushright}",
\* "\QuoteAttribution", the attribution and the default attribution.
C16_AppendsIffUnmarked ==
    (pc = "injected" /\ runs = 1)
    => md_text = Reassemble(SnippetsWhereUnmarked(splitlines(src), attribution_text), src)

\* whether five lines are the snippet C17 describes
IsSnippet(five, attr) ==
    /\ Len(five) = 5
    /\ \A n \in 1..5 : five[n] /= <<>> /\ five[n][1] = ">"
    /\ five[1] = <<">">>
    /\ Contains(<<"\\", "v", "s", "p", "a", "c", "e">>, five[2])
    /\ Contains(S_begin_flushright, five[3])
    /\ five[4] = <<">", " ", "-", "-", "-", " ">> \o attr
    /\ Contains(<<"\\", "e", "n", "d", "{", "f", "l", "u", "s", "h", "r", "i", "g", "h",
                  "t", "}">>, five[5])

\* C17: after one run of the injector every block that received a snippet is
\* followed in the output by exactly the five lines of the snippet, each
\* starting with ">", and the block with its snippet is one maximal run of
\* quote lines of the output.
C17_SnippetIsFiveQuoteLines ==
    (pc = "injected" /\ runs = 1)
    => LET lines == splitlines(src)
           out == splitlines(md_text)
           receiving == ReceivingBlocks(impl, lines, attribution_text)
       IN  \A k \in receiving :
               LET shift == 5 * Cardinality({b \in receiving : b < k})
                   e == BlockEnd(lines, k) - 1 + shift
               IN  /\ e + 5 <= Len(out)
                   /\ SubSeq(out, k + shift, e) = SubSeq(lines, k, BlockEnd(lines, k) - 1)
                   /\ IsSnippet(SubSeq(out, e + 1, e + 5), attribution_text)
                   /\ k + shift \in BlockStarts(out)
                   /\ BlockEnd(out, k + shift) = e + 6

\* what C18 says becomes of a character: the radio button and the four other
\* keys of the table become their equivalents, any other code point above
\* U+FFFF becomes nothing, any other character stays
RewrittenSymbol(c) ==
    IF c = "U+1F518" THEN <<"(", "U+25CF", ")">>
    ELSE IF c \in AstralChars THEN <<>>
    ELSE IF c \in {"U+2610", "U+2B1C"} THEN <<"[", " ", "]">>
    ELSE IF c = "U+2611" THEN <<"[", "x", "]">>
    ELSE IF c = "U+26AA" THEN <<"(", " ", ")">>
    ELSE <<c>>

\* C18: the Symbol Sanitizer rewrites the radio button U+1F518 to "(", black
\* circle, ")" and deletes every other code point above U+FFFF: its output is
\* the input with every character rewritten in place.
C18_TableBeforeRemoval ==
    pc = "sanitized"
    => md_text = Concat([k \in 1..Len(src) |-> RewrittenSymbol(src[k])])

\* C18 witness: of a text with a radio button and an emoji the sanitizer kept
\* the black circle and nothing of the emoji.
C18_Witness ==
    /\ pc = "sanitized"
    /\ \E k \in 1..Len(src) : src[k] = "U+1F518"
    /\ \E k \in 1..Len(src) : src[k] = "U+1F600"
    /\ md_text = <<"(", "U+25CF", ")">>

\* the five glyphs the table of the sanitizer rewrites
TableGlyphs == {"U+2610", "U+2611", "U+1F518", "U+26AA", "U+2B1C"}

\* whether the characters of a occur in b in their order
RECURSIVE IsSubsequence(_, _)
IsSubsequence(a, b) ==
    IF a = <<>> THEN TRUE
    ELSE IF b = <<>> THEN FALSE
    ELSE IF Head(a) = Head(b) THEN IsSubsequence(Tail(a), Tail(b))
    ELSE IsSubsequence(a, Tail(b))

\* whether a line came through the sanitizer with its characters of the Basic
\* Multilingual Plane that are no table glyphs unchanged and in order
PlaneKept(line, outLine) ==
    IF \A k \in 1..Len(line) : line[k] \notin TableGlyphs \cup AstralChars
    THEN outLine = line
    ELSE IsSubsequence(SelectSeq(line, LAMBDA c : c \notin TableGlyphs \cup AstralChars),
                       outLine)

\* C19: the text an orchestrator ends with, which its last stage, the Symbol
\* Sanitizer, returned, holds no code point above U+FFFF and none of the five
\* table glyphs, and holds, line by line, every other character of the text
\* the sanitizer was handed, unchanged and in order.
C19_SanitizedFinalText ==
    pc = "done"
    => /\ stages[Len(stages)] = "sanitize"
       /\ \A k \in 1..Len(md_text) : md_text[k] \notin TableGlyphs \cup AstralChars
       /\ LET lines == splitlines(prev)
              out == splitlines(md_text)
          IN  /\ Len(out) = Len(lines)
              /\ \A k \in 1..Len(lines) : PlaneKept(lines[k], out[k])

\* C19 witness: an orchestrator has ended on a document with the line of the
\* five table glyphs, an emoji and a letter, and its text holds their
\* equivalents and the letter.
C19_Witness ==
    /\ pc = "done"
    /\ Contains(<<"U+2B1C", "U+1F600", "a">>, src)
    /\ Contains(<<"(", "U+25CF", ")", "(", " ", ")", "[", " ", "]", "a">>, md_text)

\* the banner: the disclaimer text in bold, then a blank line
BannerText == <<"*", "*">> \o citation \o <<"*", "*", "\n", "\n">>

\* how often the banner occurs in a text
BannerCount(t) == Cardinality({k \in 1..Len(t) : OccursAt(BannerText, t, k)})

\* C20: the banner step of an orchestrator returns the banner followed by the
\* text it was handed when the disclaimer text does not occur in that text, and
\* the text as it was when it does; in no run, the runs of an orchestrator on
\* its own output included, does the text come to hold a second banner.
C20_BannerOnlyWhenAbsent ==
    /\ (stages /= <<>> /\ stages[Len(stages)] = "banner")
       => IF \E k \in 1..Len(prev) : OccursAt(citation, prev, k)
          THEN md_text = prev
          ELSE md_text = BannerText \o prev
    /\ BannerCount(md_text) <= 1

\* C20 witness: an orchestrator has run again on a text of its own that began
\* with the banner, and the text it ended with holds that one banner.
C20_Witness ==
    /\ pc = "done"
    /\ runs = 2
    /\ startswith(src, BannerText)
    /\ startswith(md_text, BannerText)
    /\ BannerCount(md_text) = 1

\* C29: the text an orchestrator ends with holds the disclaimer text.
C29_DisclaimerInFinalText ==
    pc = "done" => Contains(citation, md_text)

\* what a function has returned when it is back, by its definition
ReturnsItsResult ==
    pc = "returned"
    => /\ op = "strip"
          => /\ md_text = strip_markdown_images(impl, src).text
             /\ removals = strip_markdown_images(impl, src).removals
       /\ op = "scan"
          => scan_found = find_closing_delimiter(src, scan_start, scan_open, scan_close)

\* C23: a job whose PDF conversion raised has "failed_to_convert" in its status
\* file once its task has returned, and a download asked for then is answered
\* 409.
C23_ConversionFailureIsFinal ==
    (job_pc = "returned" /\ raised = "conversion failed")
    => /\ status_file.status = "failed_to_convert"
       /\ (answer.kind = "download" /\ answer.at = "returned") => answer.code = 409

\* C24: a status request made once the task of an accepted job has returned
\* is answered 200, and one answered 202 was made before the task returned.
C24_AnsweredOnceReturned ==
    answer.kind = "status"
    => /\ answer.at = "returned" => answer.code = 200
       /\ answer.code = 202 => answer.at /= "returned"

StatusesOfSuccess == <<"queued", "generating_md", "generating_pdf", "done">>

C26_ReadsCompletePayload ==
    (answer.kind \in {"status", "download"} /\ answer.at \notin {"no_request", "saving", "returned"})
    => \/ answer.got.outcome = "none"
       \/ /\ answer.got.outcome = "payload"
          /\ Payload(answer.got.status, answer.got.message) \in written

\* a response with a text that is not empty and holds no invalid keyword
Acceptable(outcome) ==
    /\ outcome.kind = "response"
    /\ extract_text(outcome) /= <<>>
    /\ ~contains_invalid_keyword(extract_text(outcome))

\* the requests that gave a text that is not empty
WithText == {k \in 1..Len(outcomes) : outcomes[k].kind = "response" /\ extract_text(outcomes[k]) /= <<>>}

LastOf(S) == CHOOSE k \in S : \A m \in S : m <= k

\* C27: _generate_with_retry makes at most MAX_RETRIES requests; an acceptable
\* response is the last one requested and is returned with no sleep after it;
\* a returned text is not empty; the function comes to its return or raises.
C27_TerminatesWithText ==
    /\ [](Len(outcomes) <= MAX_RETRIES)
    /\ [](retry_pc = "returned" => result /= <<>>)
    /\ [](\A k \in 1..Len(outcomes) :
            Acceptable(outcomes[k])
            => /\ k = Len(outcomes)
               /\ sleeps = k - 1
               /\ retry_pc \in {"check", "returned"}
               /\ retry_pc = "returned" => result = extract_text(outcomes[k]))
    /\ <>(retry_pc \in {"returned", "raised"})

C27_Witness ==
    /\ retry_pc = "returned"
    /\ Len(outcomes) = MAX_RETRIES
    /\ Acceptable(outcomes[MAX_RETRIES])
    /\ ~Acceptable(outcomes[1])
    /\ sleeps = 1

C30_StopAndExitCodes ==
    /\ STOP_REQUESTED => started = started_at_stop
    /\ (meta_pc = "exited" /\ STOP_REQUESTED)
       => /\ Len(successes) + Len(failures) = started
          /\ exit_code = 130
    /\ (meta_pc = "exited" /\ ~STOP_REQUESTED)
       => exit_code = IF failures /= <<>> THEN 2 ELSE 0

\* C22: the text returned by the normalizer and by the injector ends with a
\* newline exactly if the text handed to them does.
C22_TrailingNewlineKept ==
    (pc = "returned" /\ op \in {"normalize", "inject"})
    => (endswith(md_text, <<"\n">>) <=> endswith(src, <<"\n">>))

\* C21: run on any text, the functions subscript the text only at indices
\* inside it, and the loops of the Image Stripper and of the Delimiter Scanner
\* come to their return, with the result the functions have by definition.
C21_TotalAndTerminating ==
    /\ [](reads \subseteq 1..Len(src) /\ ReturnsItsResult)
    /\ (pc \in {"strip_loop", "scan"}) ~> (pc = "returned")

\* C21 witness: the Image Stripper is back from a text that ends with a
\* backslash inside an unclosed "![": the Delimiter Scanner read the backslash
\* and stepped two positions on, beyond the end of the text.
C21_Witness ==
    /\ pc = "returned"
    /\ op = "strip"
    /\ src /= <<>>
    /\ src[Len(src)] = "\\"
    /\ scan_i = Len(src) + 2
    /\ md_text = src

====
